---- MODULE Spec2Model ----
(***************************************************************************)
(* Model of the multi-series forecast operator                             *)
(* (ads/operators/forecast: utils.py, arima.py, prophet.py, automlx.py).   *)
(*                                                                         *)
(* Tables are sequences of rows; a row is a function from column names to  *)
(* cells.  A cell is NaN (the empty tuple) or <<v>>.  Timestamps are       *)
(* integers (one unit = one horizon interval).  Widths and alphas are      *)
(* binary64 floats, computed as Python computes them.                      *)
(***************************************************************************)
EXTENDS Integers, Sequences, FiniteSets, TLC

VARIABLES
    adapter,                    \* which operate() runs: arima / prophet / automlx
    data,                       \* the loaded historical table (mutated in place)
    additional_data,            \* None or Some(additional table)
    target_category_columns,    \* None or Some(list of category columns)
    confidence_interval_width,  \* None or Some(float)
    periods,                    \* operator.horizon["periods"]
    perform_tuning,             \* operator.perform_tuning (prophet)
    num_tuning_trials,          \* operator.num_tuning_trials
    selected_metric,            \* operator.selected_metric
    env,                        \* what the backend may predict, what a test file may hold
    pc,                         \* position inside operate()
    full_data_dict,             \* ordered mapping: sequence of [key, df]
    target_columns,             \* second result of _build_indexed_datasets
    categories,                 \* third result of _build_indexed_datasets
    model_kwargs,               \* backend keyword arguments (alpha / interval_width)
    i,                          \* index of the series the loop is at
    model,                      \* the loop's local: None or Some(fitted model)
    models,                     \* fitted models, in loop order
    outputs,                    \* ordered mapping: sequence of [key, forecast]
    files,                      \* tables written by _write_data, in order
    total_metrics,              \* None or Some(result of test_evaluate_metrics)
    summary_metrics,            \* None or Some(summary of test_evaluate_metrics)
    log,                        \* warnings logged by test_evaluate_metrics
    error,                      \* None or Some(name of the raised exception)
    calls,                      \* pandas readers and writers called, in order
    original_user_data,         \* operator.original_user_data
    original_total_data,        \* operator.original_total_data
    \* feature_store/common/spark_session_singleton.py
    DEVELOPER_MODE,             \* os.getenv("DEVELOPER_MODE"): None or Some(text)
    _instances,                 \* SingletonMeta._instances: class -> None or Some(object)
    heap,                       \* the SparkSessionSingleton objects built, in order
    returned,                   \* one entry per SparkSessionSingleton(...) call
    \* llm/chain.py
    sequence,                   \* the GuardrailSequence: first, middle, last
    num_generations,            \* run()'s argument
    run_pc,                     \* position inside run()
    step_index,                 \* the step the loop of run() is at
    obj,                        \* the GuardrailIO of run(): data and info
    invoked,                    \* calls made on the steps, in order
    run_error,                  \* None or Some(exception raised by run())
    \* opctl/operator/lowcode/anomaly/model/base_model.py
    datasets,                   \* self.datasets: full_data_dict as [key, df] entries
    spec_test_data,             \* whether self.spec.test_data is set
    report_pc,                  \* position inside generate_report()
    built,                      \* calls of _build_model and _fallback_build_model
    predictions,                \* est.predict of the fallback, one entry per series
    anomaly_output,             \* generate_report's local: None or Some(output)
    report,                     \* None or Some(what _save_report has saved)
    report_error                \* None or Some(exception raised by generate_report())

spark_vars == <<DEVELOPER_MODE, _instances, heap, returned>>
chain_vars == <<sequence, num_generations, run_pc, step_index, obj, invoked,
                run_error>>
anomaly_vars == <<datasets, spec_test_data, report_pc, built, predictions,
                  anomaly_output, report, report_error>>
other_vars == <<spark_vars, chain_vars, anomaly_vars>>

forecast_vars ==
    <<adapter, data, additional_data, target_category_columns,
      confidence_interval_width, periods, perform_tuning,
      num_tuning_trials, selected_metric, pc, full_data_dict,
      target_columns, categories, model_kwargs, i, model, models,
      outputs, files, total_metrics, log, error, env, summary_metrics,
      calls, original_user_data, original_total_data>>

vars == <<forecast_vars, other_vars>>

----------------------------------------------------------------------------
(* Bounds of the explored inputs *)
MaxRows == 2
MaxFuture == 1
MaxPeriods == 2
MaxTestRows == 2
MaxTrials == 2
MaxDenominator == 3

(* Names fixed by the operator configuration *)
target_column == "y"
ds_column == "ds"
original_target_column == target_column
CatVals == {"a", "a__a"}
Adapters == {"arima", "prophet", "automlx"}

----------------------------------------------------------------------------
(* Optional values and cells *)
None == <<>>
Some(v) == <<v>>
NaN == <<>>
notna(cell) == cell # NaN
Max(a, b) == IF a >= b THEN a ELSE b

(* Sequence helpers *)
RECURSIVE Join(_, _)
Join(strs, sep) ==
    IF strs = <<>> THEN ""
    ELSE IF Len(strs) = 1 THEN strs[1]
    ELSE strs[1] \o sep \o Join(Tail(strs), sep)

RECURSIVE unique(_)
unique(s) ==
    IF s = <<>> THEN <<>>
    ELSE LET rest == unique(SubSeq(s, 1, Len(s) - 1))
             last == s[Len(s)]
         IN IF \E k \in 1..Len(rest) : rest[k] = last THEN rest
            ELSE Append(rest, last)

Range(s) == {s[k] : k \in 1..Len(s)}

(* Row helpers (DataFrame column operations applied to one row) *)
assign(row, col, cell) ==
    [c \in DOMAIN row \cup {col} |-> IF c = col THEN cell ELSE row[c]]
drop(row, cols) == [c \in DOMAIN row \ cols |-> row[c]]
rename(row, old, new) ==
    IF old \in DOMAIN row
    THEN [c \in (DOMAIN row \ {old}) \cup {new} |->
            IF c = new THEN row[old] ELSE row[c]]
    ELSE row
fillna(row) == [c \in DOMAIN row |-> IF row[c] = NaN THEN Some(0) ELSE row[c]]
Map(table, Op(_)) == [r \in 1..Len(table) |-> Op(table[r])]
Dates(table) == [r \in 1..Len(table) |-> table[r][ds_column]]
IsUnique(s) == \A a, b \in 1..Len(s) : s[a] = s[b] => a = b

(* str() of a category cell: the cell's text, "nan" for a missing value *)
str(cell) == IF cell = NaN THEN "nan" ELSE cell[1]

(* utils.py _merge_category_columns: one "__"-joined key per row *)
_merge_category_columns(table, cols) ==
    [r \in 1..Len(table) |->
        Join([k \in 1..Len(cols) |-> str(table[r][cols[k]])], "__")]

----------------------------------------------------------------------------
(* Python floats (IEEE-754 binary64, round to nearest even).               *)
(* A natural number is a little-endian sequence of 15-bit limbs without    *)
(* high zero limbs; a non-negative float is [m |-> limbs, e |-> exponent]  *)
(* of value m * 2^e, kept canonical (m odd, or m = <<>>, e = 0 for zero).  *)
Base == 2 ^ 15

Front(s) == IF s = <<>> THEN <<>> ELSE SubSeq(s, 1, Len(s) - 1)
Limb(n, k) == IF k \in 1..Len(n) THEN n[k] ELSE 0

RECURSIVE Norm(_)
Norm(n) == IF n # <<>> /\ n[Len(n)] = 0 THEN Norm(Front(n)) ELSE n

RECURSIVE NFromInt(_)
NFromInt(k) == IF k = 0 THEN <<>> ELSE <<k % Base>> \o NFromInt(k \div Base)

RECURSIVE NToInt(_)
NToInt(n) == IF n = <<>> THEN 0 ELSE n[1] + Base * NToInt(Tail(n))

RECURSIVE NAddC(_, _, _)
NAddC(a, b, c) ==
    IF a = <<>> /\ b = <<>> THEN NFromInt(c)
    ELSE <<(Limb(a, 1) + Limb(b, 1) + c) % Base>>
         \o NAddC(SubSeq(a, 2, Len(a)), SubSeq(b, 2, Len(b)),
                  (Limb(a, 1) + Limb(b, 1) + c) \div Base)
NAdd(a, b) == NAddC(a, b, 0)

RECURSIVE NSubB(_, _, _)
NSubB(a, b, borrow) ==
    IF a = <<>> THEN <<>>
    ELSE <<(Limb(a, 1) - Limb(b, 1) - borrow) % Base>>
         \o NSubB(Tail(a), SubSeq(b, 2, Len(b)),
                  IF Limb(a, 1) - Limb(b, 1) - borrow < 0 THEN 1 ELSE 0)
NSub(a, b) == Norm(NSubB(a, b, 0))          \* requires a >= b

RECURSIVE NMulC(_, _, _)
NMulC(a, k, c) ==                           \* a * k + c for small k, c
    IF a = <<>> THEN NFromInt(c)
    ELSE <<(a[1] * k + c) % Base>> \o NMulC(Tail(a), k, (a[1] * k + c) \div Base)
NMul(a, k) == Norm(NMulC(a, k, 0))

(* Long division by a small d from the most significant limb down *)
RECURSIVE NDivQ(_, _, _)
NDivQ(a, d, r) ==
    IF a = <<>> THEN <<>>
    ELSE Append(NDivQ(Front(a), d, (r * Base + a[Len(a)]) % d),
                (r * Base + a[Len(a)]) \div d)
RECURSIVE NDivR(_, _, _)
NDivR(a, d, r) ==
    IF a = <<>> THEN r ELSE NDivR(Front(a), d, (r * Base + a[Len(a)]) % d)

BitLenSmall(x) == CHOOSE k \in 0..15 : x < 2 ^ k /\ (k = 0 \/ x >= 2 ^ (k - 1))
BitLen(n) == IF n = <<>> THEN 0
             ELSE 15 * (Len(n) - 1) + BitLenSmall(n[Len(n)])
Bit(n, j) == (Limb(n, j \div 15 + 1) \div 2 ^ (j % 15)) % 2
Shr(n, s) ==
    LET q == s \div 15
        r == s % 15
    IN  Norm([k \in 1..Max(Len(n) - q, 0) |->
                (Limb(n, q + k) \div 2 ^ r)
                + (Limb(n, q + k + 1) % 2 ^ r) * 2 ^ (15 - r)])
Shl(n, s) ==
    LET q == s \div 15
        r == s % 15
    IN  Norm([k \in 1..(Len(n) + q + 1) |->
                ((Limb(n, k - q) * 2 ^ r) % Base)
                + (Limb(n, k - q - 1) \div 2 ^ (15 - r))])

Canonical(n, e) ==
    IF n = <<>> THEN [m |-> <<>>, e |-> 0]
    ELSE LET t == CHOOSE u \in 0..(BitLen(n) - 1) :
                     Bit(n, u) = 1 /\ \A v \in 0..(u - 1) : Bit(n, v) = 0
         IN  [m |-> Shr(n, t), e |-> e + t]

(* Round the exact value n * 2^e to 53 significant bits, ties to even *)
Round(n0, e) ==
    LET n == Norm(n0)
        cut == BitLen(n) - 53
        keep == Shr(n, cut)
        half == Bit(n, cut - 1) = 1
        sticky == \E v \in 0..(cut - 2) : Bit(n, v) = 1
        up == half /\ (sticky \/ Bit(keep, 0) = 1)
    IN  IF cut <= 0 THEN Canonical(n, e)
        ELSE Canonical(IF up THEN NAdd(keep, <<1>>) ELSE keep, e + cut)

FromInt(k) == Canonical(NFromInt(k), 0)
FMul(x, k) == Round(NMul(x.m, k), x.e)                     \* x * k
FDiv(x, d) ==                                              \* x / d
    LET num == Shl(x.m, 64)
        q == Norm(NDivQ(num, d, 0))
    IN  IF NDivR(num, d, 0) = 0 THEN Round(q, x.e - 64)
        ELSE Round(NAdd(Shl(q, 1), <<1>>), x.e - 64 - 1)
FSub(x, y) ==                                              \* x - y, x >= y
    LET e0 == IF x.e <= y.e THEN x.e ELSE y.e
    IN  Round(NSub(Shl(x.m, x.e - e0), Shl(y.m, y.e - e0)), e0)
(* int(x): the integer part of a non-negative float *)
int(x) == IF x.e >= 0 THEN NToInt(Shl(x.m, x.e)) ELSE NToInt(Shr(x.m, -x.e))
(* x // k for a non-negative float and a small positive integer k *)
FFloorDiv(x, k) == FromInt(int(x) \div k)
(* The float written as the decimal literal 0.PP, P in percent *)
Percent(P) == FDiv(FromInt(P), 100)

----------------------------------------------------------------------------
(* pandas pieces used by the partitioning *)

RECURSIVE SortedSeq(_)
SortedSeq(S) ==
    IF S = {} THEN <<>>
    ELSE LET m == CHOOSE a \in S : \A b \in S : a <= b
         IN <<m>> \o SortedSeq(S \ {m})

RECURSIVE Flatten(_)
Flatten(ss) == IF ss = <<>> THEN <<>> ELSE ss[1] \o Flatten(Tail(ss))

Columns(table) == IF table = <<>> THEN {} ELSE DOMAIN table[1]

(* pd.concat([A, B], axis=1) of two frames indexed by the datetime column: *)
(* equal indexes are paired by position; unequal unique indexes give the   *)
(* outer join on the timestamp (missing cells NaN); unequal indexes with   *)
(* duplicate labels cannot be reindexed and raise.                         *)
concat_axis1(A, B) ==
    LET dA == Dates(A)
        dB == Dates(B)
        colsA == Columns(A) \ {ds_column}
        colsB == Columns(B) \ {ds_column}
        cell(T, d, c) ==
            IF \E r \in 1..Len(T) : T[r][ds_column] = Some(d)
            THEN (T[CHOOSE r \in 1..Len(T) : T[r][ds_column] = Some(d)])[c]
            ELSE NaN
        idx == SortedSeq({dA[r][1] : r \in 1..Len(dA)}
                         \cup {dB[r][1] : r \in 1..Len(dB)})
    IN  IF dA = dB
        THEN [error |-> None,
              table |-> [r \in 1..Len(A) |->
                            [c \in Columns(A) \cup Columns(B) |->
                                IF c \in Columns(A) THEN A[r][c] ELSE B[r][c]]]]
        ELSE IF ~IsUnique(dA) \/ ~IsUnique(dB)
        THEN [error |-> Some("InvalidIndexError"), table |-> <<>>]
        ELSE [error |-> None,
              table |-> [r \in 1..Len(idx) |->
                            [c \in {ds_column} \cup colsA \cup colsB |->
                                IF c = ds_column THEN Some(idx[r])
                                ELSE IF c \in colsA THEN cell(A, idx[r], c)
                                ELSE cell(B, idx[r], c)]]]

(* A variant that leaves out the rows with a missing category value *)
select_series_dropna(T, cat, cols) ==
    SelectSeq(T, LAMBDA row : /\ row["__Series__"] = Some(cat)
                              /\ \A c \in Range(cols) : notna(row[c]))

(* data[data["__Series__"] == cat] *)
select_series(T, cat, cols) ==
    SelectSeq(T, LAMBDA row : row["__Series__"] = Some(cat))

(* Python values whose type the caller does not fix *)
py_none == [type |-> "NoneType", value |-> <<>>]
py_str(s) == [type |-> "str", value |-> s]
py_list(l) == [type |-> "list", value |-> l]

(* utils.py _build_indexed_datasets.  The result also carries the two      *)
(* argument tables as the call leaves them (the "__Series__" column is     *)
(* assigned on the caller's objects).                                      *)
_build_indexed_datasets(tab, tcol, dcol, cat_columns, add) ==
    IF cat_columns = None
    THEN IF add = None
         THEN [error |-> None,
               df_by_target |-> <<[key |-> tcol, df |-> Map(tab, fillna)]>>,
               target_columns |-> py_str(tcol),
               categories |-> <<>>,
               data |-> tab, additional_data |-> add]
         ELSE LET c == concat_axis1(Map(tab, fillna), Map(add[1], fillna))
              IN  [error |-> c.error,
                   df_by_target |-> IF c.error = None
                                    THEN <<[key |-> tcol, df |-> c.table]>>
                                    ELSE <<>>,
                   target_columns |-> py_str(tcol),
                   categories |-> <<>>,
                   data |-> tab, additional_data |-> add]
    ELSE
    LET cols == cat_columns[1]
        keys == _merge_category_columns(tab, cols)
        data1 == [r \in 1..Len(tab) |-> assign(tab[r], "__Series__", Some(keys[r]))]
        unique_categories == unique(keys)
        dropped == Range(cols) \cup {"__Series__"}
        newname(cat) == tcol \o "_" \o cat
        by_cat(T, cat) ==
            LET sel == select_series(T, cat, cols)
            IN  [r \in 1..Len(sel) |->
                    fillna(drop(rename(sel[r], tcol, newname(cat)), dropped))]
        addkeys == _merge_category_columns(add[1], cols)
        add1 == [r \in 1..Len(add[1]) |->
                    assign(add[1][r], "__Series__", Some(addkeys[r]))]
        frame(cat) ==
            IF add = None
            THEN [error |-> None, table |-> by_cat(data1, cat)]
            ELSE concat_axis1(by_cat(add1, cat), by_cat(data1, cat))
        frames == [k \in 1..Len(unique_categories) |-> frame(unique_categories[k])]
        failed == \E k \in 1..Len(frames) : frames[k].error # None
        df_by_target ==
            [k \in 1..Len(frames) |->
                [key |-> newname(unique_categories[k]), df |-> frames[k].table]]
    IN  [error |-> IF failed THEN Some("InvalidIndexError") ELSE None,
         df_by_target |-> IF failed THEN <<>> ELSE df_by_target,
         target_columns |-> py_list([k \in 1..Len(df_by_target) |->
                                        df_by_target[k].key]),
         categories |-> unique_categories,
         data |-> data1,
         additional_data |-> IF add = None \/ unique_categories = <<>>
                             THEN add ELSE Some(add1)]

----------------------------------------------------------------------------
(* Input tables *)
exog_column == "x"
YCells == {NaN, Some(5)}

SeqsUpTo(S, n) == UNION {[1..k -> S] : k \in 1..n}

RowsOver(colset, cells, ycells) ==
    {[cat |-> c, y |-> yv] : c \in [colset -> cells], yv \in ycells}
RowChoicesIn(colset, cells) == RowsOver(colset, cells, YCells)
RowChoices(colset) == RowChoicesIn(colset, {Some(v) : v \in CatVals})

(* A historical table: the r-th row of a series carries timestamp r *)
MkTable(ch) ==
    [r \in 1..Len(ch) |->
        LET d == 1 + Cardinality({q \in 1..(r - 1) : ch[q].cat = ch[r].cat})
        IN  [c \in DOMAIN ch[r].cat \cup {ds_column, target_column} |->
                IF c = ds_column THEN Some(d)
                ELSE IF c = target_column THEN ch[r].y
                ELSE ch[r].cat[c]]]

Tables(cat_columns) ==
    LET colset == IF cat_columns = None THEN {} ELSE Range(cat_columns[1])
    IN  {MkTable(ch) : ch \in SeqsUpTo(RowChoices(colset), MaxRows)}

(* An additional-data table for tab: one regressor row per historical row  *)
(* and F further rows per series beyond its last timestamp                 *)
MkAdditional(tab, F) ==
    LET catOf(row) == drop(row, {ds_column, target_column})
        hist == [r \in 1..Len(tab) |->
                    assign(drop(tab[r], {target_column}), exog_column, Some(1))]
        groups == unique([r \in 1..Len(tab) |-> catOf(tab[r])])
        cnt(g) == Cardinality({r \in 1..Len(tab) : catOf(tab[r]) = g})
        fut(g) == [k \in 1..F |->
                    assign(assign(g, ds_column, Some(cnt(g) + k)),
                           exog_column, Some(1))]
    IN  hist \o Flatten([k \in 1..Len(groups) |-> fut(groups[k])])

ColumnChoices == {None, Some(<<"c1">>), Some(<<"c1", "c2">>)}

(* File names are sequences of characters *)
data_csv == <<"d", "a", "t", "a", ".", "c", "s", "v">>
data_xlsx == <<"d", "a", "t", "a", ".", "x", "l", "s", "x">>
data_json == <<"d", "a", "t", "a", ".", "j", "s", "o", "n">>
dotted_dir == <<"v", ".", "1", "/", "h", "d", "f">>
dot_csv == <<".", "c", "s", "v">>
Filenames == {data_csv, data_xlsx, data_json, dotted_dir, dot_csv}
FormatArguments ==
    {None, Some(""), Some("csv"), Some("excel"), Some("parquet"), Some(".csv")}

(* Every file is named data.csv and no format is configured *)
CsvFiles ==
    [input_filename |-> data_csv, historical_format |-> None,
     additional_filename |-> data_csv, additional_format |-> None,
     test_filename |-> data_csv, test_format |-> None,
     output_filename |-> data_csv, output_format |-> None]

(* The backend forecasts Yhat, test files hold the value 5 *)
FixedValues == env = [yhat_values |-> None, test_values |-> {5}] @@ CsvFiles

(* A run without hyperparameter tuning *)
NoTuning ==
    /\ perform_tuning = FALSE
    /\ num_tuning_trials = 1
    /\ selected_metric = "rmse"

(* operate() has not started: nothing loaded, fitted or written *)
operate_not_started ==
    /\ pc = "load"
    /\ full_data_dict = <<>>
    /\ target_columns = py_none
    /\ categories = <<>>
    /\ model_kwargs = [alpha |-> None, interval_width |-> None]
    /\ i = 1
    /\ model = None
    /\ models = <<>>
    /\ outputs = <<>>
    /\ files = <<>>
    /\ total_metrics = None
    /\ summary_metrics = None
    /\ log = <<>>
    /\ error = None
    /\ calls = <<>>
    /\ original_user_data = None
    /\ original_total_data = None

(* No SparkSessionSingleton(...) call was made *)
no_instances ==
    /\ _instances = [SparkSessionSingleton |-> None]
    /\ heap = <<>>
    /\ returned = <<>>

(* run() has not been called *)
run_not_started ==
    /\ run_pc = "call"
    /\ step_index = 1
    /\ obj = [data |-> <<>>, info |-> <<>>]
    /\ invoked = <<>>
    /\ run_error = None

(* No GuardrailSequence exists *)
no_sequence ==
    /\ sequence = [first |-> None, middle |-> <<>>, last |-> None]
    /\ num_generations = 1
    /\ run_not_started

(* generate_report() has not been called *)
report_not_started ==
    /\ report_pc = "try"
    /\ built = <<>>
    /\ predictions = <<>>
    /\ anomaly_output = None
    /\ report = None
    /\ report_error = None

(* No anomaly operator exists *)
no_anomaly_operator ==
    /\ datasets = [full_data_dict |-> <<>>]
    /\ spec_test_data = FALSE
    /\ report_not_started

(* Nothing has run in the process *)
NotStarted ==
    /\ operate_not_started
    /\ DEVELOPER_MODE = None
    /\ no_instances
    /\ no_sequence
    /\ no_anomaly_operator

(* Runs over all small tables, width 0.80 or unset *)
Init ==
    /\ adapter \in Adapters
    /\ target_category_columns \in ColumnChoices
    /\ data \in Tables(target_category_columns)
    /\ additional_data \in
         {None} \cup {Some(MkAdditional(data, F)) : F \in 0..MaxFuture}
    /\ confidence_interval_width \in {None, Some(Percent(80))}
    /\ periods \in 1..MaxPeriods
    /\ NoTuning
    /\ FixedValues
    /\ NotStarted

(* Runs over every width 0.01 .. 0.99 on one two-series table *)
TwoSeries ==
    MkTable(<<[cat |-> [c \in {"c1"} |-> Some("a")], y |-> Some(5)],
              [cat |-> [c \in {"c1"} |-> Some("a__a")], y |-> Some(5)]>>)

InitWidth ==
    /\ adapter \in Adapters
    /\ target_category_columns = Some(<<"c1">>)
    /\ data = TwoSeries
    /\ additional_data \in {None, Some(MkAdditional(data, 1))}
    /\ confidence_interval_width \in {Some(Percent(P)) : P \in 1..99}
    /\ periods = 1
    /\ NoTuning
    /\ FixedValues
    /\ NotStarted

(* Runs over tables with one category column whose value may be missing *)
InitPartition ==
    /\ adapter \in Adapters
    /\ target_category_columns = Some(<<"c1">>)
    /\ data \in {MkTable(ch) :
                   ch \in SeqsUpTo(RowChoicesIn({"c1"}, {Some(v) : v \in CatVals}
                                                          \cup {NaN}),
                                   MaxRows)}
    /\ additional_data = None
    /\ confidence_interval_width = Some(Percent(80))
    /\ periods = 1
    /\ NoTuning
    /\ FixedValues
    /\ NotStarted

(* prophet runs with tuning, over every trial count and selected metric *)
InitTuning ==
    /\ adapter = "prophet"
    /\ target_category_columns \in {None, Some(<<"c1">>)}
    /\ data \in Tables(target_category_columns)
    /\ additional_data = None
    /\ confidence_interval_width = Some(Percent(80))
    /\ periods = 1
    /\ perform_tuning = TRUE
    /\ num_tuning_trials \in 0..MaxTrials
    /\ selected_metric \in {"rmse", "smape", "MAPE"}
    /\ FixedValues
    /\ NotStarted

(* Runs on one two-series table whose backend may forecast 0, 1 or 2 and   *)
(* whose test file holds 0 or 5                                            *)
InitMetrics ==
    /\ adapter \in Adapters
    /\ target_category_columns = Some(<<"c1">>)
    /\ data = TwoSeries
    /\ additional_data \in {None, Some(MkAdditional(data, 1))}
    /\ confidence_interval_width = Some(Percent(80))
    /\ periods = 1
    /\ NoTuning
    /\ env = [yhat_values |-> Some({0, 1, 2}), test_values |-> {0, 5}] @@ CsvFiles
    /\ NotStarted

(* Runs on one two-series table over file names and configured formats *)
InitFormat ==
    /\ adapter \in Adapters
    /\ target_category_columns = Some(<<"c1">>)
    /\ data = TwoSeries
    /\ additional_data \in {None, Some(MkAdditional(data, 1))}
    /\ confidence_interval_width = Some(Percent(80))
    /\ periods = 1
    /\ NoTuning
    /\ env \in {[yhat_values |-> None, test_values |-> {5}]
                  @@ [input_filename |-> fi, historical_format |-> fmti,
                      additional_filename |-> data_csv, additional_format |-> fmta,
                      test_filename |-> data_csv, test_format |-> fmtt,
                      output_filename |-> fo, output_format |-> fmto] :
                 fi \in Filenames, fmti \in FormatArguments,
                 fmta \in {None, Some("hdf"), Some("xlsx")},
                 fmtt \in {None, Some("feather"), Some("txt")},
                 fo \in {data_json, data_xlsx},
                 fmto \in {None, Some("clipboard"), Some("CSV")}}
    /\ NotStarted

----------------------------------------------------------------------------
(* Reading and writing files (utils.py 92-121) *)
RECURSIVE characters_joined(_)
characters_joined(cs) ==
    IF cs = <<>> THEN "" ELSE cs[1] \o characters_joined(Tail(cs))

MaxOf(S) == CHOOSE m \in S : \A k \in S : k <= m

(* os.path.splitext: the extension starts at the last dot of the last     *)
(* path component, unless only dots precede it there                      *)
splitext(p) ==
    LET sepIndex == MaxOf({0} \cup {k \in 1..Len(p) : p[k] = "/"})
        dotIndex == MaxOf({0} \cup {k \in 1..Len(p) : p[k] = "."})
    IN  IF /\ dotIndex > sepIndex
           /\ \E k \in (sepIndex + 1)..(dotIndex - 1) : p[k] # "."
        THEN <<SubSeq(p, 1, dotIndex - 1), SubSeq(p, dotIndex, Len(p))>>
        ELSE <<p, <<>>>>

(* The formats _load_data and _write_data dispatch on *)
pandas_formats == {"json", "clipboard", "excel", "csv", "feather", "hdf"}

(* utils.py 99-101, 113-115: an empty format is taken from the extension *)
format_of(filename, format) ==
    IF format = None \/ format = Some("")
    THEN LET ext == splitext(filename)[2]
         IN  characters_joined(SubSeq(ext, 2, Len(ext)))
    ELSE format[1]

(* A variant that dispatches on whatever format it is given *)
_load_data_any(filename, format) ==
    [error |-> None,
     calls |-> <<[fn |-> "read_" \o format_of(filename, format),
                  filename |-> filename]>>]

(* utils.py _load_data: the pandas reader called, or the error raised *)
_load_data(filename, format) ==
    IF format_of(filename, format) \in pandas_formats
    THEN [error |-> None,
          calls |-> <<[fn |-> "read_" \o format_of(filename, format),
                       filename |-> filename]>>]
    ELSE [error |-> Some("ValueError"), calls |-> <<>>]

(* utils.py _write_data: the pandas writer called, or the error raised *)
_write_data(filename, format) ==
    IF format_of(filename, format) \in pandas_formats
    THEN [error |-> None,
          calls |-> <<[fn |-> "to_" \o format_of(filename, format),
                       filename |-> filename]>>]
    ELSE [error |-> Some("ValueError"), calls |-> <<>>]

(* utils.py 241: pd.concat([data, additional_data], axis=1) keeps the two *)
(* tables side by side                                                    *)
concat_total(tab, add) == [left |-> tab, right |-> add]

(* utils.py load_data_dict *)
load_data_dict ==
    /\ pc = "load"
    /\ LET h == _load_data(env.input_filename, env.historical_format)
           a == IF additional_data = None THEN [error |-> None, calls |-> <<>>]
                ELSE _load_data(env.additional_filename, env.additional_format)
           b == _build_indexed_datasets(data, target_column, ds_column,
                                        target_category_columns, additional_data)
       IN  IF h.error # None
           THEN /\ error' = h.error
                /\ pc' = "raised"
                /\ UNCHANGED <<data, additional_data, full_data_dict,
                               target_columns, categories, calls,
                               original_user_data, original_total_data>>
           ELSE IF a.error # None
           THEN /\ error' = a.error
                /\ pc' = "raised"
                /\ calls' = calls \o h.calls
                /\ original_user_data' = Some(data)
                /\ original_total_data' = Some(data)
                /\ UNCHANGED <<data, additional_data, full_data_dict,
                               target_columns, categories>>
           ELSE /\ calls' = calls \o h.calls \o a.calls
                /\ original_user_data' = Some(data)
                /\ original_total_data' =
                     IF additional_data = None THEN Some(b.data)
                     ELSE Some(concat_total(data, additional_data[1]))
                /\ data' = b.data
                /\ additional_data' = b.additional_data
                /\ full_data_dict' = b.df_by_target
                /\ target_columns' = b.target_columns
                /\ categories' = b.categories
                /\ error' = b.error
                /\ pc' = IF b.error = None THEN "width" ELSE "raised"
    /\ UNCHANGED <<other_vars, perform_tuning, num_tuning_trials, selected_metric, env, adapter, target_category_columns, confidence_interval_width,
                   periods, model_kwargs, i, model, models, outputs, files,
                   total_metrics, log, summary_metrics>>

----------------------------------------------------------------------------
(* The three adapters' operate() *)
DefaultAlpha == 5              \* arima: model_kwargs.get("alpha", 0.05)
DefaultIntervalWidth == 90     \* prophet: model_kwargs.get("interval_width", 0.90)

(* A variant that flushes what has been collected before it raises *)
raise_flushing(name) ==
    /\ error' = Some(name)
    /\ pc' = "raised"
    /\ files' = Append(files, outputs)
    /\ UNCHANGED <<other_vars, original_user_data, original_total_data, calls, perform_tuning, num_tuning_trials, selected_metric, env, adapter, data, additional_data, target_category_columns,
                   confidence_interval_width, periods, full_data_dict,
                   target_columns, categories, model_kwargs, i, model,
                   models, outputs, total_metrics, log, summary_metrics>>

raise(name) ==
    /\ error' = Some(name)
    /\ pc' = "raised"
    /\ UNCHANGED <<other_vars, original_user_data, original_total_data, calls, perform_tuning, num_tuning_trials, selected_metric, env, adapter, data, additional_data, target_category_columns,
                   confidence_interval_width, periods, full_data_dict,
                   target_columns, categories, model_kwargs, i, model,
                   models, outputs, files, total_metrics, log, summary_metrics>>

(* arima.py 39-40: model_kwargs["alpha"] = 1 - confidence_interval_width   *)
arima_kwargs(kwargs, w) == [kwargs EXCEPT !.alpha = Some(FSub(FromInt(1), w))]
(* prophet.py 53-54: model_kwargs["interval_width"] = the width            *)
prophet_kwargs(kwargs, w) == [kwargs EXCEPT !.interval_width = Some(w)]

(* arima.py 34-40, prophet.py 48-54: the width becomes the backend's       *)
(* parameter; automlx.py reads the width only at its forecast call         *)
convert_width ==
    /\ pc = "width"
    /\ LET w == IF confidence_interval_width # None THEN confidence_interval_width
                ELSE IF adapter = "arima"
                THEN Some(FSub(FromInt(1), Percent(DefaultAlpha)))
                ELSE IF adapter = "prophet" THEN Some(Percent(DefaultIntervalWidth))
                ELSE None
       IN  /\ confidence_interval_width' = w
           /\ model_kwargs' =
                IF adapter = "arima" THEN arima_kwargs(model_kwargs, w[1])
                ELSE IF adapter = "prophet" THEN prophet_kwargs(model_kwargs, w[1])
                ELSE model_kwargs
    /\ pc' = "loop"
    /\ UNCHANGED <<other_vars, original_user_data, original_total_data, calls, perform_tuning, num_tuning_trials, selected_metric, env, adapter, data, additional_data, target_category_columns,
                   periods, full_data_dict, target_columns, categories, i,
                   model, models, outputs, files, total_metrics, log, error, summary_metrics>>

(* additional_regressors: every frame column except target and timestamp *)
additional_regressors(df, target) == Columns(df) \ {target, ds_column}

(* The rows an adapter hands to its backend's fit *)
training_rows(a, df, target) ==
    IF a \in {"arima", "prophet"}
    THEN [error |-> None,
          rows |-> SelectSeq(df, LAMBDA row : notna(row[target]))]
    ELSE IF additional_regressors(df, target) # {}
    THEN (IF periods >= Len(df)              \* temporal_train_test_split
          THEN [error |-> Some("ValueError"), rows |-> <<>>]
          ELSE [error |-> None, rows |-> SubSeq(df, 1, Len(df) - periods)])
    ELSE [error |-> None, rows |-> df]

(* prophet.py 140-149: the defaults of Prophet(), enqueued as a trial *)
ProphetDefaults ==
    [seasonality_mode |-> "additive", changepoint_prior_scale |-> "0.05",
     seasonality_prior_scale |-> "10.0", holidays_prior_scale |-> "10.0",
     changepoint_range |-> "0.8"]

(* prophet.py 78-94: parameters a trial may be given by the sampler *)
SuggestedParams ==
    {ProphetDefaults,
     [seasonality_mode |-> "multiplicative", changepoint_prior_scale |-> "0.001",
      seasonality_prior_scale |-> "0.01", holidays_prior_scale |-> "0.01",
      changepoint_range |-> "0.95"]}

(* prophet.py 123-130: the performance metrics of one cross validation,   *)
(* one row per horizon step                                                *)
PerformanceMetrics ==
    {[rmse |-> <<1, 1>>, smape |-> <<1, 3>>],
     [rmse |-> <<1, 3>>, smape |-> <<1, 1>>]}

(* np.mean of a column (the columns explored have whole means) *)
RECURSIVE column_sum(_)
column_sum(col) == IF col = <<>> THEN 0 ELSE col[1] + column_sum(Tail(col))
np_mean(col) == column_sum(col) \div Len(col)

(* A variant whose fallback is the other metric of the table *)
objective_smape(df_p) ==
    IF selected_metric \in DOMAIN df_p THEN np_mean(df_p[selected_metric])
    ELSE np_mean(df_p["smape"])

(* prophet.py 131-137: the value the objective returns *)
objective(df_p) ==
    IF selected_metric \in DOMAIN df_p THEN np_mean(df_p[selected_metric])
    ELSE np_mean(df_p["rmse"])

(* A variant without the enqueued trial: every trial is sampled *)
Studies_sampled(n_trials) ==
    {[k \in 1..n_trials |->
         [params |-> ps[k], df_p |-> dfs[k], value |-> objective(dfs[k])]] :
       ps \in [1..n_trials -> SuggestedParams],
       dfs \in [1..n_trials -> PerformanceMetrics]}

(* prophet.py 139-150: the studies optimize() may run: the enqueued trial  *)
(* is the first one, the sampler suggests the others                       *)
Studies(n_trials) ==
    {[k \in 1..n_trials |->
         [params |-> IF k = 1 THEN ProphetDefaults ELSE ps[k],
          df_p |-> dfs[k],
          value |-> objective(dfs[k])]] :
       ps \in [1..n_trials -> SuggestedParams],
       dfs \in [1..n_trials -> PerformanceMetrics]}

(* study.best_trial: the first trial with the least value *)
best_trial(study) ==
    study[CHOOSE k \in 1..Len(study) :
            /\ \A j \in 1..Len(study) : study[k].value <= study[j].value
            /\ \A j \in 1..(k - 1) : study[j].value > study[k].value]

(* The loop body up to and including the backend's fit                     *)
(* (arima.py 46-69, prophet.py 56-158, automlx.py 35-53).                  *)
(* A backend may reject any input; it always rejects an empty one.         *)
(* prophet with perform_tuning first runs the study (72-153); the fit      *)
(* then takes study.best_params, a fresh copy of the best trial's          *)
(* parameters (the update at 152 is made on another copy).                 *)
fit_series ==
    /\ pc = "loop"
    /\ i <= Len(full_data_dict)
    /\ LET target == full_data_dict[i].key
           t == training_rows(adapter, full_data_dict[i].df, target)
           tuning == adapter = "prophet" /\ perform_tuning
       IN  \E accepted \in BOOLEAN,
              study \in (IF tuning THEN Studies(num_tuning_trials) ELSE {<<>>}) :
             IF t.error # None THEN raise(t.error[1])
             ELSE IF tuning /\ study = <<>> THEN raise("ValueError")
             ELSE IF ~accepted \/ t.rows = <<>> THEN raise("BackendError")
             ELSE /\ model' = Some([target |-> target,
                                    train |-> t.rows,
                                    alpha |-> IF adapter = "arima"
                                              THEN model_kwargs.alpha ELSE None,
                                    interval_width |->
                                        IF tuning THEN None
                                        ELSE model_kwargs.interval_width,
                                    study |-> study,
                                    params |-> IF tuning
                                               THEN Some(best_trial(study).params)
                                               ELSE None])
                  /\ pc' = "predict"
                  /\ UNCHANGED <<other_vars, original_user_data, original_total_data, calls, perform_tuning, num_tuning_trials, selected_metric, env, adapter, data, additional_data,
                                 target_category_columns,
                                 confidence_interval_width, periods,
                                 full_data_dict, target_columns, categories,
                                 model_kwargs, i, models, outputs, files,
                                 total_metrics, log, error, summary_metrics>>

LastDate(rows) == rows[Len(rows)][ds_column][1]
MaxDate(rows) == CHOOSE d \in {rows[r][ds_column][1] : r \in 1..Len(rows)} :
                    \A r \in 1..Len(rows) : rows[r][ds_column][1] <= d

(* A backend's point forecast for timestamp d (deterministic backend) *)
Yhat(m, d) == 10 * Len(m.train) + d
(* The point forecasts a backend may return for the timestamps asked *)
PointForecasts(m, dates) ==
    IF env.yhat_values = None
    THEN {[k \in 1..Len(dates) |-> Yhat(m, dates[k])]}
    ELSE [1..Len(dates) -> env.yhat_values[1]]
ForecastRow(d, yhat, ci) ==
    [ds |-> Some(d), yhat |-> Some(yhat),
     yhat_lower |-> IF ci THEN Some(yhat - 1) ELSE NaN,
     yhat_upper |-> IF ci THEN Some(yhat + 1) ELSE NaN]

(* The timestamps each adapter asks its backend to predict.                *)
(* arima: n_periods steps after the training data, X = the rows whose      *)
(* target is null; without regressors X.iloc on a DatetimeIndex raises.    *)
(* prophet: the whole frame, or make_future_dataframe (history + periods). *)
(* automlx: periods steps after the training data.                         *)
future_dates(a, df, target, train) ==
    IF a = "arima"
    THEN IF additional_regressors(df, target) = {}
         THEN [error |-> Some("AttributeError"), dates |-> <<>>]
         ELSE IF Len(SelectSeq(df, LAMBDA row : row[target] = NaN)) # periods
         THEN [error |-> Some("ValueError"), dates |-> <<>>]
         ELSE [error |-> None,
               dates |-> [k \in 1..periods |-> LastDate(train) + k]]
    ELSE IF a = "prophet"
    THEN IF additional_regressors(df, target) # {}
         THEN [error |-> None, dates |-> [r \in 1..Len(df) |-> df[r][ds_column][1]]]
         ELSE [error |-> None,
               dates |-> SortedSeq({train[r][ds_column][1] : r \in 1..Len(train)})
                         \o [k \in 1..periods |-> MaxDate(train) + k]]
    ELSE IF confidence_interval_width = None
         THEN [error |-> Some("TypeError"), dates |-> <<>>]
         ELSE [error |-> None,
               dates |-> [k \in 1..periods |-> LastDate(train) + k]]

(* A variant that puts the new element in front *)
append_front(list, x) == <<x>> \o list

(* models.append(model) (arima.py 98, prophet.py 175) *)
append(list, x) == Append(list, x)

(* The rest of the loop body: predict and collect                          *)
(* (arima.py 71-100, prophet.py 160-177, automlx.py 54-68).  automlx's     *)
(* backend may return no interval (naive model): the bounds are then NaN.  *)
forecast_series ==
    /\ pc = "predict"
    /\ LET m == model[1]
           f == future_dates(adapter, full_data_dict[i].df, m.target, m.train)
       IN  \E accepted \in BOOLEAN, ci \in BOOLEAN,
              yhat \in PointForecasts(m, f.dates) :
             IF f.error # None THEN raise(f.error[1])
             ELSE IF ~accepted THEN raise("BackendError")
             ELSE /\ (ci \/ adapter = "automlx")
                  /\ LET fitted ==
                           IF adapter = "automlx"
                           THEN [m EXCEPT !.alpha =
                                   Some(FSub(FromInt(1),
                                             FDiv(confidence_interval_width[1], 100)))]
                           ELSE m
                         forecast == [k \in 1..Len(f.dates) |->
                                        ForecastRow(f.dates[k], yhat[k], ci)]
                     IN  /\ models' = append(models, fitted)
                         /\ outputs' = Append(outputs, [key |-> m.target,
                                                        forecast |-> forecast])
                  /\ model' = None
                  /\ i' = i + 1
                  /\ pc' = "loop"
                  /\ UNCHANGED <<other_vars, original_user_data, original_total_data, calls, perform_tuning, num_tuning_trials, selected_metric, env, adapter, data, additional_data,
                                 target_category_columns,
                                 confidence_interval_width, periods,
                                 full_data_dict, target_columns, categories,
                                 model_kwargs, files, total_metrics, log,
                                 error, summary_metrics>>

(* Names of the two bound columns (arima.py 111-113, prophet.py 188-190,   *)
(* automlx.py 81-82)                                                       *)
arima_bound_names(kwargs) ==
    LET yhat_upper_percentage ==
            int(FSub(FromInt(100), FDiv(FMul(kwargs.alpha[1], 100), 2)))
    IN  [lower |-> "p" \o ToString(100 - yhat_upper_percentage),
         upper |-> "p" \o ToString(yhat_upper_percentage)]
prophet_bound_names(kwargs) ==
    LET yhat_lower_percentage ==
            FFloorDiv(FSub(FromInt(100), FMul(kwargs.interval_width[1], 100)), 2)
    IN  [lower |-> "p" \o ToString(int(yhat_lower_percentage)),
         upper |-> "p" \o ToString(int(FSub(FromInt(100), yhat_lower_percentage)))]
automlx_bound_names(col) ==
    [lower |-> col \o "_forecast_lower", upper |-> col \o "_forecast_upper"]
bound_names(a, kwargs) ==
    IF a = "arima" THEN arima_bound_names(kwargs)
    ELSE IF a = "prophet" THEN prophet_bound_names(kwargs)
    ELSE automlx_bound_names(original_target_column)

HasKey(out, key) == \E k \in 1..Len(out) : out[k].key = key
Get(out, key) == out[CHOOSE k \in 1..Len(out) : out[k].key = key].forecast

(* One series' block of the merged table (arima.py 115-121,                *)
(* prophet.py 192-198, automlx.py 77-82): the upper bound column is        *)
(* assigned before the lower one                                           *)
output_i(a, out, kwargs, cat) ==
    LET fc == Get(out, original_target_column \o "_" \o cat)
        names == bound_names(a, kwargs)
        date_name == IF a = "automlx" THEN ds_column ELSE "Date"
        value_name == IF a = "automlx"
                      THEN original_target_column \o "_forecast"
                      ELSE "forecast_value"
    IN  [r \in 1..Len(fc) |->
            assign(assign([c \in {date_name, "Series", value_name} |->
                               IF c = date_name THEN fc[r].ds
                               ELSE IF c = "Series" THEN Some(cat)
                               ELSE fc[r].yhat],
                          names.upper, fc[r].yhat_upper),
                   names.lower, fc[r].yhat_lower)]

(* A variant that stacks the blocks in the reverse of the category order *)
outputs_merged_reversed(a, out, kwargs, cats) ==
    Flatten([k \in 1..Len(cats) |->
               output_i(a, out, kwargs, cats[Len(cats) + 1 - k])])

(* The merged table: the blocks of operator.categories, stacked row-wise *)
outputs_merged(a, out, kwargs, cats) ==
    Flatten([k \in 1..Len(cats) |-> output_i(a, out, kwargs, cats[k])])

(* After the loop: merge and _write_data                                   *)
(* (arima.py 102-128, prophet.py 179-205, automlx.py 70-90)                *)
merge_and_write ==
    /\ pc = "loop"
    /\ i > Len(full_data_dict)
    /\ IF \E k \in 1..Len(categories) :
            ~HasKey(outputs, original_target_column \o "_" \o categories[k])
       THEN raise("KeyError")
       ELSE IF _write_data(env.output_filename, env.output_format).error # None
       THEN raise(_write_data(env.output_filename, env.output_format).error[1])
       ELSE /\ files' = Append(files, outputs_merged(adapter, outputs,
                                                     model_kwargs, categories))
            /\ calls' = calls \o _write_data(env.output_filename,
                                              env.output_format).calls
            /\ pc' = "written"
            /\ UNCHANGED <<other_vars, original_user_data, original_total_data, perform_tuning, num_tuning_trials, selected_metric, env, adapter, data, additional_data,
                           target_category_columns, confidence_interval_width,
                           periods, full_data_dict, target_columns, categories,
                           model_kwargs, i, model, models, outputs,
                           total_metrics, log, error, summary_metrics>>

RECURSIVE concat_all(_)
concat_all(frames) ==
    IF Len(frames) = 1 THEN [error |-> None, table |-> frames[1]]
    ELSE LET c == concat_all(Front(frames))
         IN  IF c.error # None THEN c
             ELSE concat_axis1(c.table, frames[Len(frames)])

(* Re-merge of the historical frames and return                            *)
(* (arima.py 130-138, prophet.py 207-212, automlx.py 92-96)                *)
return_results ==
    /\ pc = "written"
    /\ LET hist == [k \in 1..Len(full_data_dict) |->
                      SelectSeq(full_data_dict[k].df,
                                LAMBDA row : notna(row[full_data_dict[k].key]))]
           data_merged == concat_all(hist)
       IN  IF data_merged.error # None THEN raise(data_merged.error[1])
           ELSE /\ pc' = "done"
                /\ UNCHANGED <<other_vars, original_user_data, original_total_data, calls, perform_tuning, num_tuning_trials, selected_metric, env, adapter, data, additional_data,
                               target_category_columns,
                               confidence_interval_width, periods,
                               full_data_dict, target_columns, categories,
                               model_kwargs, i, model, models, outputs, files,
                               total_metrics, log, error, summary_metrics>>

----------------------------------------------------------------------------
(* Test metrics *)

(* utils.py _clean_data: the test table reshaped to one column per series *)
RECURSIVE concat_columns(_, _)
concat_columns(df, series) ==
    IF series = <<>> THEN [error |-> None, table |-> df]
    ELSE LET c == concat_axis1(df, series[1])
         IN  IF c.error # None THEN c ELSE concat_columns(c.table, Tail(series))

_clean_data(tab, tcol, dcol, cat_columns) ==
    IF cat_columns = None
    THEN [error |-> Some("ValueError"), table |-> <<>>, target_columns |-> <<>>]
    ELSE
    LET keys == _merge_category_columns(tab, cat_columns[1])
        data1 == [r \in 1..Len(tab) |-> assign(tab[r], "__Series__", Some(keys[r]))]
        unique_categories == unique(keys)
        newname(cat) == tcol \o "_" \o cat
        column(cat) ==
            LET sel == SelectSeq(data1, LAMBDA row : row["__Series__"] = Some(cat))
            IN  [r \in 1..Len(sel) |->
                    [c \in {dcol, newname(cat)} |->
                        IF c = dcol THEN sel[r][dcol] ELSE sel[r][tcol]]]
        c == concat_columns(<<>>, [k \in 1..Len(unique_categories) |->
                                      column(unique_categories[k])])
    IN  [error |-> c.error,
         table |-> Map(c.table, fillna),
         target_columns |-> [k \in 1..Len(unique_categories) |->
                               newname(unique_categories[k])]]

RECURSIVE Sum(_)
Sum(s) == IF s = <<>> THEN 0 ELSE s[1] + Sum(Tail(s))
Abs(v) == IF v < 0 THEN -v ELSE v
ColumnValues(table, col) == [r \in 1..Len(table) |-> table[r][col][1]]
LastN(s, n) == SubSeq(s, Max(Len(s) - n, 0) + 1, Len(s))

(* Exact numbers: a rational [n, d] in lowest terms with d > 0, an        *)
(* infinity [n, d] with d = 0, or NaN.                                     *)
RECURSIVE GCD(_, _)
GCD(a, b) == IF b = 0 THEN a ELSE GCD(b, a % b)
Sign(v) == IF v < 0 THEN -1 ELSE IF v > 0 THEN 1 ELSE 0
Rat(n, d) ==
    IF d = 0 THEN [n |-> Sign(n), d |-> 0]
    ELSE LET g == GCD(Abs(n), Abs(d))
         IN  [n |-> Sign(d) * (n \div g), d |-> Abs(d) \div g]
RAdd(x, y) == Rat(x.n * y.d + y.n * x.d, x.d * y.d)
RMul(x, y) == Rat(x.n * y.n, x.d * y.d)
RLeq(x, y) == x.n * y.d <= y.n * x.d
RECURSIVE RSum(_)
RSum(s) == IF s = <<>> THEN Rat(0, 1) ELSE RAdd(s[1], RSum(Tail(s)))

(* numpy true division of two numbers: 0/0 is nan, v/0 an infinity *)
true_divide(a, b) == IF a = 0 /\ b = 0 THEN NaN ELSE Some(Rat(a, b))

(* round(x, 2) of a rational, half to even, as a rational of hundredths *)
round2(x) ==
    LET scaled == x.n * 100
        lo == scaled \div x.d
        rem2 == 2 * (scaled % x.d)
        h == IF rem2 > x.d \/ (rem2 = x.d /\ lo % 2 = 1) THEN lo + 1 ELSE lo
    IN  Rat(h, 100)

(* utils.py smape: round(mean(|a - p| / (|a| + |p|)) * 100, 2) *)
smape(actual, predicted) ==
    LET terms == [k \in 1..Len(actual) |->
                    true_divide(Abs(actual[k] - predicted[k]),
                                Abs(actual[k]) + Abs(predicted[k]))]
    IN  IF actual = <<>> \/ \E k \in 1..Len(terms) : terms[k] = NaN THEN NaN
        ELSE Some(round2(RMul(RMul(RSum([k \in 1..Len(terms) |-> terms[k][1]]),
                                   Rat(1, Len(terms))),
                              Rat(100, 1))))

(* sklearn mean_absolute_percentage_error: mean(|a - p| / max(|a|, eps)).  *)
(* The value is q + over_eps / eps, eps the machine epsilon.               *)
mean_absolute_percentage_error(y_true, y_pred) ==
    LET n == Rat(1, Len(y_true))
        term(k) == IF y_true[k] # 0
                   THEN Rat(Abs(y_true[k] - y_pred[k]), Abs(y_true[k]))
                   ELSE Rat(0, 1)
        eterm(k) == IF y_true[k] = 0 THEN Rat(Abs(y_pred[k]), 1) ELSE Rat(0, 1)
    IN  [q |-> RMul(RSum([k \in 1..Len(y_true) |-> term(k)]), n),
         over_eps |-> RMul(RSum([k \in 1..Len(y_true) |-> eterm(k)]), n)]

(* sklearn mean_squared_error *)
mean_squared_error(y_true, y_pred) ==
    RMul(Rat(Sum([k \in 1..Len(y_true) |->
                    (y_true[k] - y_pred[k]) * (y_true[k] - y_pred[k])]), 1),
         Rat(1, Len(y_true)))

(* weight * mape of _build_metrics_df *)
weighted(weight, mape) ==
    IF weight = NaN THEN NaN
    ELSE IF weight[1].d = 0
    THEN (IF mape.q.n = 0 /\ mape.over_eps.n = 0 THEN NaN
          ELSE Some([q |-> weight[1], over_eps |-> Rat(0, 1)]))
    ELSE Some([q |-> RMul(weight[1], mape.q),
               over_eps |-> RMul(weight[1], mape.over_eps)])

(* A variant whose weight ignores the denominator *)
_build_metrics_df_unweighted(y_true, y_pred, column_name, weights_denominator) ==
    LET mape == mean_absolute_percentage_error(y_true, y_pred)
    IN  [column_name |-> column_name,
         WMAPE |-> weighted(true_divide(Sum(y_true), 1), mape),
         sMAPE |-> smape(y_true, y_pred),
         MAPE |-> mape,
         RMSE |-> [sqrt |-> mean_squared_error(y_true, y_pred)],
         r2 |-> [r2_score |-> <<y_true, y_pred>>]]
        @@ ("Explained Variance" :>
               [explained_variance_score |-> <<y_true, y_pred>>])

(* utils.py _build_metrics_df: one column of the metrics table.  RMSE is   *)
(* kept as the number whose square root it is; r2 and the explained        *)
(* variance are kept as the library call that gives them.                  *)
_build_metrics_df(y_true, y_pred, column_name, weights_denominator) ==
    LET weight == true_divide(Sum(y_true), weights_denominator)
        mape == mean_absolute_percentage_error(y_true, y_pred)
    IN  [column_name |-> column_name,
         WMAPE |-> weighted(weight, mape),
         sMAPE |-> smape(y_true, y_pred),
         MAPE |-> mape,
         RMSE |-> [sqrt |-> mean_squared_error(y_true, y_pred)],
         r2 |-> [r2_score |-> <<y_true, y_pred>>]]
        @@ ("Explained Variance" :>
               [explained_variance_score |-> <<y_true, y_pred>>])

(* utils.py test_evaluate_metrics 321-347: the loop over target_columns.   *)
(* y_true is the loop's local: an iteration whose column is missing from   *)
(* the test table logs a warning and goes on with the y_true it finds.     *)
RECURSIVE metrics_loop(_, _, _, _, _, _, _)
metrics_loop(idx, tcols, wide, outs, weights_denominator, y_true, acc) ==
    IF idx > Len(tcols) THEN acc
    ELSE
    LET col == tcols[idx]
        found == col \in Columns(wide)
        y == IF found THEN Some(ColumnValues(wide, col)) ELSE y_true
        logged == IF found THEN acc.log
                  ELSE Append(acc.log, [warning |-> "Could not find category",
                                        categories |-> {col}])
        yhat == [r \in 1..Len(outs[idx].forecast) |-> outs[idx].forecast[r].yhat[1]]
        y_pred == LastN(yhat, Len(y[1]))
    IN  IF y = None
        THEN [error |-> Some("UnboundLocalError"), columns |-> acc.columns,
              log |-> logged]
        ELSE IF Len(y_pred) # Len(y[1])
        THEN [error |-> Some("ValueError"), columns |-> acc.columns,
              log |-> logged]
        ELSE metrics_loop(idx + 1, tcols, wide, outs, weights_denominator, y,
                          [error |-> None,
                           columns |-> Append(acc.columns,
                                              [column_name |-> col,
                                               y_true |-> y[1],
                                               y_pred |-> y_pred,
                                               weights_denominator |->
                                                   weights_denominator,
                                               metrics |->
                                                   _build_metrics_df(y[1],
                                                       y_pred, col,
                                                       weights_denominator)]),
                           log |-> logged])

(* utils.py test_evaluate_metrics: the per-series metrics table, as the    *)
(* arguments each column's _build_metrics_df call was given                *)
test_evaluate_metrics_result(tcols, test, outs) ==
    LET cd == _clean_data(test, original_target_column, "ds",
                          target_category_columns)
        missing_from_test_set == Range(tcols) \ Range(cd.target_columns)
        extra_in_test_set == Range(cd.target_columns) \ Range(tcols)
        log0 == (IF missing_from_test_set # {}
                 THEN <<[warning |-> "Missing data in the test data set",
                         categories |-> missing_from_test_set]>>
                 ELSE <<>>)
                \o (IF extra_in_test_set # {}
                    THEN <<[warning |-> "Extra categories found",
                            categories |-> extra_in_test_set]>>
                    ELSE <<>>)
        test_target_columns == Range(tcols) \ missing_from_test_set
        weights_denominator ==
            Sum([r \in 1..Len(cd.table) |->
                   Sum(Map(SelectSeq(tcols, LAMBDA col : col \in test_target_columns),
                           LAMBDA col : Abs(cd.table[r][col][1])))])
    IN  IF cd.error # None
        THEN [error |-> cd.error, columns |-> <<>>, log |-> <<>>, data |-> <<>>]
        ELSE [data |-> cd.table] @@
             metrics_loop(1, tcols, cd.table, outs, weights_denominator, None,
                          [error |-> None, columns |-> <<>>, log |-> log0])

(* utils.py test_evaluate_metrics 365-387: the summary table, as its       *)
(* columns, its row labels and the "All Targets" row; a summary value is   *)
(* kept as the list of per-series values np.mean is applied to.            *)
MetricNames == <<"WMAPE", "sMAPE", "MAPE", "RMSE", "r2", "Explained Variance">>
summary_metrics_of(columns, wide) ==
    [columns |-> {"Mean " \o MetricNames[k] : k \in 1..Len(MetricNames)}
                   \cup {"Elapsed Time"},
     index |-> [r \in 1..Len(wide) |-> ToString(wide[r]["ds"][1])]
               \o <<"All Targets">>,
     all_targets |->
        [c \in {"Mean " \o MetricNames[k] : k \in 1..Len(MetricNames)} |->
            [mean |-> [j \in 1..Len(columns) |->
                         columns[j].metrics[
                            MetricNames[CHOOSE k \in 1..Len(MetricNames) :
                                           c = "Mean " \o MetricNames[k]]]]]]]

TestTables ==
    LET colset == IF target_category_columns = None THEN {}
                  ELSE Range(target_category_columns[1])
    IN  {MkTable(ch) :
           ch \in SeqsUpTo(RowsOver(colset, {Some(v) : v \in CatVals},
                                    {Some(v) : v \in env.test_values}),
                          MaxTestRows)}

(* A caller evaluates the finished run against a test file *)
test_evaluate_metrics ==
    /\ pc = "done"
    /\ LET t == _load_data(env.test_filename, env.test_format)
       IN  IF t.error # None
           THEN /\ error' = t.error
                /\ pc' = "raised"
                /\ UNCHANGED <<log, total_metrics, summary_metrics, calls>>
           ELSE \E test \in TestTables :
                  LET res == test_evaluate_metrics_result(target_columns.value, test,
                                                          outputs)
                  IN  /\ calls' = calls \o t.calls
                      /\ log' = res.log
                      /\ error' = res.error
                      /\ total_metrics' = IF res.error = None
                                          THEN Some(res.columns) ELSE None
                      /\ summary_metrics' =
                           IF res.error = None
                           THEN Some(summary_metrics_of(res.columns, res.data))
                           ELSE None
                      /\ pc' = IF res.error = None THEN "evaluated" ELSE "raised"
    /\ UNCHANGED <<other_vars, original_user_data, original_total_data, perform_tuning, num_tuning_trials, selected_metric, env, adapter, data, additional_data, target_category_columns,
                   confidence_interval_width, periods, full_data_dict,
                   target_columns, categories, model_kwargs, i, model, models,
                   outputs, files>>

Next ==
    \/ load_data_dict
    \/ convert_width
    \/ fit_series
    \/ forecast_series
    \/ merge_and_write
    \/ return_results
    \/ test_evaluate_metrics

Spec == Init /\ [][Next]_vars
SpecWidth == InitWidth /\ [][Next]_vars
SpecPartition == InitPartition /\ [][Next]_vars
SpecTuning == InitTuning /\ [][Next]_vars
SpecMetrics == InitMetrics /\ [][Next]_vars
SpecFormat == InitFormat /\ [][Next]_vars

----------------------------------------------------------------------------
(* feature_store/common/spark_session_singleton.py *)
MaxCalls == 3
MetastoreIds == {None, Some(""), Some("ocid1"), Some("ocid2")}

(* No forecast is run in the process *)
no_forecast ==
    /\ adapter = "arima"
    /\ target_category_columns = None
    /\ data = <<>>
    /\ additional_data = None
    /\ confidence_interval_width = None
    /\ periods = 1
    /\ NoTuning
    /\ FixedValues
    /\ operate_not_started

InitSpark ==
    /\ no_forecast
    /\ no_sequence
    /\ no_anomaly_operator
    /\ DEVELOPER_MODE \in {None, Some("true")}
    /\ no_instances

(* spark_session_singleton.py 33-34 *)
developer_enabled == DEVELOPER_MODE # None /\ DEVELOPER_MODE # Some("")

(* spark_session_singleton.py 51-94 __init__: the object a completed       *)
(* __init__ leaves: the metastore the session is configured with and       *)
(* whether the delta jars were configured                                  *)
SparkSessionSingleton(metastore_id) ==
    [metastore |-> IF ~developer_enabled /\ metastore_id # None
                      /\ metastore_id # Some("")
                   THEN metastore_id ELSE None,
     delta_pip |-> developer_enabled]

(* A variant that never finds the class in _instances *)
cached_never(instances, cls) == FALSE

(* spark_session_singleton.py 42: cls in cls._instances *)
cached(instances, cls) == instances[cls] # None

(* spark_session_singleton.py 41-45 SingletonMeta.__call__, for one call   *)
(* SparkSessionSingleton(metastore_id).  __init__ may raise (the metastore *)
(* lookup or the session creation fails): nothing is stored then.          *)
__call__ ==
    /\ Len(returned) < MaxCalls
    /\ \E metastore_id \in MetastoreIds, raises \in BOOLEAN :
         LET cls == "SparkSessionSingleton"
         IN  IF cached(_instances, cls)
             THEN /\ ~raises
                  /\ returned' = Append(returned,
                                        [metastore_id |-> metastore_id,
                                         init |-> FALSE,
                                         result |-> _instances[cls]])
                  /\ UNCHANGED <<_instances, heap>>
             ELSE IF raises
             THEN /\ returned' = Append(returned,
                                        [metastore_id |-> metastore_id,
                                         init |-> TRUE,
                                         result |-> None])
                  /\ UNCHANGED <<_instances, heap>>
             ELSE /\ heap' = Append(heap, SparkSessionSingleton(metastore_id))
                  /\ _instances' = [_instances EXCEPT ![cls] = Some(Len(heap) + 1)]
                  /\ returned' = Append(returned,
                                        [metastore_id |-> metastore_id,
                                         init |-> TRUE,
                                         result |-> Some(Len(heap) + 1)])
    /\ UNCHANGED <<DEVELOPER_MODE, forecast_vars, chain_vars, anomaly_vars>>

NextSpark == __call__

SpecSpark == InitSpark /\ [][NextSpark]_vars

----------------------------------------------------------------------------
(* llm/chain.py GuardrailSequence *)
MaxMiddle == 1
MaxGenerations == 2
input == "q"

(* A step: its kind (a Guardrail, an LLM or another Runnable), its class   *)
(* name and its custom_msg attribute: <<>> when the step has none, else    *)
(* <<None>> or <<Some(text)>>                                              *)
Step(kind, name, custom_msg) ==
    [kind |-> kind, class |-> name, custom_msg |-> custom_msg]
StepChoices ==
    {Step("Guardrail", "Toxicity", <<>>),
     Step("Guardrail", "Toxicity", <<None>>),
     Step("Guardrail", "Toxicity", <<Some("Sorry")>>),
     Step("LLM", "OpenAI", <<>>),
     Step("Runnable", "PromptTemplate", <<>>)}

InitChain ==
    /\ no_forecast
    /\ DEVELOPER_MODE = None
    /\ no_instances
    /\ no_anomaly_operator
    /\ sequence \in [first : {None} \cup {Some(st) : st \in StepChoices},
                     middle : {<<>>} \cup SeqsUpTo(StepChoices, MaxMiddle),
                     last : {None} \cup {Some(st) : st \in StepChoices}]
    /\ num_generations \in 1..MaxGenerations
    /\ run_not_started

(* chain.py 40-49: the steps property *)
steps(seq) ==
    IF seq.first # None
    THEN <<seq.first[1]>> \o seq.middle
         \o (IF seq.last # None THEN <<seq.last[1]>> ELSE <<>>)
    ELSE <<>>

(* What a component makes of one text *)
output_of(k, text) == text \o "." \o ToString(k)

(* The results a guardrail's invoke may give: it lets any of the texts     *)
(* through, in their order, and adds its run info                          *)
RECURSIVE kept(_, _)
kept(texts, keep) ==
    IF texts = <<>> THEN <<>>
    ELSE (IF keep[1] THEN <<texts[1]>> ELSE <<>>) \o kept(Tail(texts), Tail(keep))
guardrail_invoke(k, step, o) ==
    {[data |-> [j \in 1..Len(kept(o.data, keep)) |->
                   output_of(k, kept(o.data, keep)[j])],
      info |-> Append(o.info, [name |-> step.class, input |-> o.data,
                               output |-> [j \in 1..Len(kept(o.data, keep)) |->
                                             output_of(k, kept(o.data, keep)[j])],
                               spec |-> None])] :
       keep \in [1..Len(o.data) -> BOOLEAN]}

(* chain.py 78-90 _invoke_llm: the calls made on the llm and their output *)
_invoke_llm(k, texts, n) ==
    IF n > 1
    THEN IF Len(texts) > 1
         THEN [error |-> Some("NotImplementedError"), calls |-> <<>>,
               output |-> <<>>]
         ELSE [error |-> None,
               calls |-> [g \in 1..n |->
                            [step |-> k, method |-> "invoke", input |-> texts[1]]],
               output |-> [g \in 1..n |-> output_of(k, texts[1])]]
    ELSE [error |-> None,
          calls |-> <<[step |-> k, method |-> "batch", input |-> texts]>>,
          output |-> [j \in 1..Len(texts) |-> output_of(k, texts[j])]]

default_msg(step) == "Blocked by " \o step.class

(* A variant that always takes the default message *)
blocked_message_default(step) == default_msg(step)

(* chain.py 136-139: the step's custom_msg, the default when the step has  *)
(* none or it is None                                                      *)
blocked_message(step) ==
    IF step.custom_msg = <<>> \/ step.custom_msg = <<None>>
    THEN default_msg(step)
    ELSE step.custom_msg[1][1]

(* chain.py 109: obj = GuardrailIO(data=[input]) *)
run ==
    /\ run_pc = "call"
    /\ obj' = [data |-> <<input>>, info |-> <<>>]
    /\ step_index' = 1
    /\ run_pc' = "loop"
    /\ UNCHANGED <<forecast_vars, spark_vars, anomaly_vars, sequence, num_generations,
                   invoked, run_error>>

(* chain.py 111-141: one iteration of the loop over the steps *)
run_step ==
    /\ run_pc = "loop"
    /\ step_index <= Len(steps(sequence))
    /\ LET step == steps(sequence)[step_index]
           llm == _invoke_llm(step_index, obj.data, num_generations)
           batch == [j \in 1..Len(obj.data) |-> output_of(step_index, obj.data[j])]
           results ==
             IF step.kind = "Guardrail"
             THEN guardrail_invoke(step_index, step, obj)
             ELSE LET output == IF step.kind = "LLM" THEN llm.output ELSE batch
                  IN  {[data |-> output,
                        info |-> Append(obj.info,
                                        [name |-> step.class, input |-> obj.data,
                                         output |-> output,
                                         spec |-> IF step.kind = "LLM"
                                                  THEN Some(num_generations)
                                                  ELSE None])]}
           made == IF step.kind = "Guardrail"
                   THEN <<[step |-> step_index, method |-> "invoke",
                           input |-> obj.data]>>
                   ELSE IF step.kind = "LLM" THEN llm.calls
                   ELSE <<[step |-> step_index, method |-> "batch",
                           input |-> obj.data]>>
       IN  IF step.kind = "LLM" /\ llm.error # None
           THEN /\ run_error' = llm.error
                /\ run_pc' = "raised"
                /\ UNCHANGED <<obj, step_index, invoked>>
           ELSE \E o \in results :
                  /\ invoked' = invoked \o made
                  /\ run_error' = run_error
                  /\ IF o.data = <<>>
                     THEN /\ obj' = [o EXCEPT !.data = <<blocked_message(step)>>]
                          /\ run_pc' = "returned"
                          /\ step_index' = step_index
                     ELSE /\ obj' = o
                          /\ run_pc' = "loop"
                          /\ step_index' = step_index + 1
    /\ UNCHANGED <<forecast_vars, spark_vars, anomaly_vars, sequence, num_generations>>

(* chain.py 142: return obj after the last step *)
run_return ==
    /\ run_pc = "loop"
    /\ step_index > Len(steps(sequence))
    /\ run_pc' = "returned"
    /\ UNCHANGED <<forecast_vars, spark_vars, anomaly_vars, sequence, num_generations,
                   step_index, obj, invoked, run_error>>

NextChain ==
    \/ run
    \/ run_step
    \/ run_return

SpecChain == InitChain /\ [][NextChain]_vars

----------------------------------------------------------------------------
(* opctl/operator/lowcode/anomaly/model/base_model.py generate_report *)
MaxSeries == 2
MaxPoints == 2
date_column == "Date"
ANOMALY_COL == "anomaly"
SCORE_COL == "score"

(* A series frame: MaxPoints or fewer rows of date and target value *)
SeriesFrame(target, n) ==
    [r \in 1..n |-> [c \in {date_column, target} |-> r]]
SeriesNames == <<"A", "B", "C">>
FullDataDicts ==
    UNION {{[k \in 1..m |-> [key |-> SeriesNames[k],
                             df |-> SeriesFrame(SeriesNames[k], ns[k])]] :
              ns \in [1..m -> 1..MaxPoints]} :
           m \in 1..MaxSeries}

InitAnomaly ==
    /\ no_forecast
    /\ DEVELOPER_MODE = None
    /\ no_instances
    /\ no_sequence
    /\ datasets \in {[full_data_dict |-> d] : d \in FullDataDicts}
    /\ spec_test_data \in BOOLEAN
    /\ report_not_started

(* AnomalyOutput: the outputs added, in order, by category *)
AnomalyOutput == <<>>
add_output(output, category, anomalies, scores) ==
    Append(output, [category |-> category, anomalies |-> anomalies,
                    scores |-> scores])
list_categories(output) == [k \in 1..Len(output) |-> output[k].category]
has_category(output, category) ==
    \E k \in 1..Len(output) : output[k].category = category
get_anomalies_by_cat(output, category) ==
    output[CHOOSE k \in 1..Len(output) : output[k].category = category].anomalies
get_num_anomalies_by_cat(output, category) ==
    Cardinality({r \in 1..Len(get_anomalies_by_cat(output, category)) :
                   get_anomalies_by_cat(output, category)[r][ANOMALY_COL] = 1})

(* The outputs the model's _build_model may return: labels 0 or 1 for      *)
(* every row of every series                                               *)
RECURSIVE ModelOutputs(_)
ModelOutputs(dict) ==
    IF dict = <<>> THEN {AnomalyOutput}
    ELSE LET last == dict[Len(dict)]
         IN  {add_output(o, last.key,
                         [r \in 1..Len(last.df) |->
                            [c \in {date_column, ANOMALY_COL} |->
                               IF c = date_column THEN last.df[r][date_column]
                               ELSE labels[r]]],
                         [r \in 1..Len(last.df) |->
                            [c \in {date_column, SCORE_COL} |->
                               IF c = date_column THEN last.df[r][date_column]
                               ELSE "score"]]) :
                o \in ModelOutputs(Front(dict)),
                labels \in [1..Len(last.df) -> {0, 1}]}

(* The exceptions _build_model may raise, and those that are Exceptions *)
Raised == {"ValueError", "KeyboardInterrupt"}
Exceptions == {"ValueError"}

(* base_model.py 66-67: the try of generate_report *)
_build_model ==
    /\ report_pc = "try"
    /\ \/ \E output \in ModelOutputs(datasets.full_data_dict) :
            /\ built' = Append(built, [method |-> "_build_model",
                                       outcome |-> "returned"])
            /\ anomaly_output' = Some(output)
            /\ report_pc' = "report"
            /\ report_error' = report_error
       \/ \E e \in Raised :
            /\ built' = Append(built, [method |-> "_build_model", outcome |-> e])
            /\ anomaly_output' = anomaly_output
            /\ IF e \in Exceptions
               THEN report_pc' = "except" /\ report_error' = report_error
               ELSE report_pc' = "raised" /\ report_error' = Some(e)
    /\ UNCHANGED <<forecast_vars, spark_vars, chain_vars, datasets,
                   spec_test_data, predictions, report>>

(* A variant that keeps the estimator's own labels *)
outlier_map_identity(label) == IF label = 1 THEN 1 ELSE 0

(* base_model.py 347: self.outlier_map = {1: 0, -1: 1} *)
outlier_map(label) == IF label = 1 THEN 0 ELSE 1

(* base_model.py 350-364: the loop of _fallback_build_model over the       *)
(* series, given what est.predict returns for each                         *)
RECURSIVE fallback_outputs(_, _)
fallback_outputs(dict, y_preds) ==
    IF dict = <<>> THEN AnomalyOutput
    ELSE LET last == dict[Len(dict)]
             y_pred == [r \in 1..Len(last.df) |->
                          outlier_map(y_preds[Len(dict)][r])]
         IN  add_output(fallback_outputs(Front(dict), Front(y_preds)),
                        last.key,
                        [r \in 1..Len(last.df) |->
                           [c \in {date_column, ANOMALY_COL} |->
                              IF c = date_column THEN last.df[r][date_column]
                              ELSE y_pred[r]]],
                        [r \in 1..Len(last.df) |->
                           [c \in {date_column, SCORE_COL} |->
                              IF c = date_column THEN last.df[r][date_column]
                              ELSE "score"]])

(* What est.predict may return for every series: 1 (inlier) or -1 *)
EstimatorPredictions(dict) ==
    {y_preds \in [1..Len(dict) -> UNION {[1..n -> {1, -1}] : n \in 1..MaxPoints}] :
       \A k \in 1..Len(dict) : Len(y_preds[k]) = Len(dict[k].df)}

(* base_model.py 68-69, 332-366: the except of generate_report.  The       *)
(* estimator may refuse a series: the exception leaves generate_report.    *)
_fallback_build_model ==
    /\ report_pc = "except"
    /\ \/ \E y_preds \in EstimatorPredictions(datasets.full_data_dict) :
            /\ built' = Append(built, [method |-> "_fallback_build_model",
                                       outcome |-> "returned"])
            /\ predictions' = y_preds
            /\ anomaly_output' =
                 Some(fallback_outputs(datasets.full_data_dict, y_preds))
            /\ report_pc' = "report"
            /\ report_error' = report_error
       \/ /\ built' = Append(built, [method |-> "_fallback_build_model",
                                     outcome |-> "ValueError"])
          /\ report_pc' = "raised"
          /\ report_error' = Some("ValueError")
          /\ UNCHANGED <<predictions, anomaly_output>>
    /\ UNCHANGED <<forecast_vars, spark_vars, chain_vars, datasets,
                   spec_test_data, report>>

(* base_model.py 71-160: the rest of generate_report.  With test data      *)
(* _test_data_evaluate_metrics reads the undefined name filename (182).    *)
generate_report ==
    /\ report_pc = "report"
    /\ LET dict == datasets.full_data_dict
           output == anomaly_output[1]
       IN  IF spec_test_data
           THEN /\ report_error' = Some("NameError")
                /\ report_pc' = "raised"
                /\ report' = report
           ELSE IF \E k \in 1..Len(dict) : ~has_category(output, dict[k].key)
           THEN /\ report_error' = Some("KeyError")
                /\ report_pc' = "raised"
                /\ report' = report
           ELSE /\ report' =
                     Some([plots |->
                             [k \in 1..Len(dict) |->
                                [target |-> dict[k].key,
                                 anomaly_col |->
                                   [r \in 1..Len(get_anomalies_by_cat(output,
                                                                      dict[k].key)) |->
                                      get_anomalies_by_cat(output,
                                                           dict[k].key)[r][ANOMALY_COL]]]],
                           evaluation_metrics |->
                             [k \in 1..Len(output) |->
                                [category |-> list_categories(output)[k],
                                 num_anomalies |->
                                   get_num_anomalies_by_cat(
                                       output, list_categories(output)[k])]]])
                /\ report_pc' = "saved"
                /\ report_error' = report_error
    /\ UNCHANGED <<forecast_vars, spark_vars, chain_vars, datasets,
                   spec_test_data, built, predictions, anomaly_output>>

NextAnomaly ==
    \/ _build_model
    \/ _fallback_build_model
    \/ generate_report

SpecAnomaly == InitAnomaly /\ [][NextAnomaly]_vars

----------------------------------------------------------------------------
(* Properties *)

(* C1: the forecast file is written at most once per run and only after    *)
(* every series has been fitted and forecast; when the fit or predict of a *)
(* series raises, the run has ended with that error and no file exists.    *)
C1_WrittenOnceAfterAllSeries ==
    /\ Len(files) <= 1
    /\ files # <<>> =>
         /\ i > Len(full_data_dict)
         /\ Len(outputs) = Len(full_data_dict)
         /\ Len(models) = Len(full_data_dict)
    /\ (pc = "raised" /\ full_data_dict # <<>> /\ i <= Len(full_data_dict)) =>
         /\ files = <<>>
         /\ error # None

(* The second of two series failed after the first had been forecast *)
C1_Witness ==
    /\ pc = "raised"
    /\ Len(full_data_dict) = 2
    /\ i = 2
    /\ Len(outputs) = 1
    /\ files = <<>>

CategoryTuple(row) ==
    [k \in 1..Len(target_category_columns[1]) |-> row[target_category_columns[1][k]]]

(* C3: with category columns, partitioning returns exactly one frame per   *)
(* distinct tuple of category values, and two rows share a frame exactly   *)
(* when they have the same tuple.                                          *)
C3_OneFramePerTuple ==
    (target_category_columns # None /\ full_data_dict # <<>>) =>
        /\ Len(full_data_dict) =
              Cardinality({CategoryTuple(data[r]) : r \in 1..Len(data)})
        /\ \A r1, r2 \in 1..Len(data) :
              (data[r1]["__Series__"] = data[r2]["__Series__"])
                 <=> (CategoryTuple(data[r1]) = CategoryTuple(data[r2]))

(* The series a raw row belongs to, and the raw rows of a series whose     *)
(* target is present                                                       *)
SeriesOf(row) ==
    IF target_category_columns = None THEN target_column
    ELSE target_column \o "_" \o row["__Series__"][1]
RawPresent(key) ==
    SelectSeq(data, LAMBDA row : SeriesOf(row) = key /\ notna(row[target_column]))
Fitted == models \o (IF model = None THEN <<>> ELSE <<model[1]>>)

(* C4: the training data handed to a backend's fit holds only rows whose   *)
(* raw target was present.                                                 *)
C4_TrainOnPresentTargetsOnly ==
    pc # "load" =>
        \A k \in 1..Len(Fitted) :
            LET present == RawPresent(Fitted[k].target)
                train == Fitted[k].train
            IN  /\ Len(train) <= Len(present)
                /\ \A t \in 1..Len(train) :
                      \E r \in 1..Len(present) :
                          present[r][ds_column] = train[t][ds_column]

(* C5: every collected forecast frame has exactly horizon.periods rows,    *)
(* all later than the last training timestamp of its series.               *)
C5_ForecastFrameIsTheHorizon ==
    \A k \in 1..Len(outputs) :
        /\ Len(outputs[k].forecast) = periods
        /\ \A r \in 1..Len(outputs[k].forecast) :
              outputs[k].forecast[r].ds[1] > MaxDate(models[k].train)

DateOf(row) == IF "Date" \in DOMAIN row THEN row["Date"][1] ELSE row[ds_column][1]

(* C6: without category columns a successful run writes a table of exactly *)
(* horizon.periods rows, all later than the last historical timestamp.     *)
C6_SingleSeriesTable ==
    (target_category_columns = None /\ files # <<>>) =>
        /\ Len(files[1]) = periods
        /\ \A r \in 1..Len(files[1]) : DateOf(files[1][r]) > MaxDate(data)

MissingFromTest ==
    UNION {log[k].categories :
             k \in {j \in 1..Len(log) :
                      log[j].warning = "Missing data in the test data set"}}

(* C2: when a forecast series is absent from the test data,                *)
(* test_evaluate_metrics logs it, does not fail on it, and the per-series  *)
(* metrics table has columns only for the series present in both train and *)
(* test.                                                                   *)
C2_MetricsOverIntersection ==
    MissingFromTest # {} =>
        /\ error # Some("UnboundLocalError")
        /\ total_metrics # None =>
             {total_metrics[1][k].column_name : k \in 1..Len(total_metrics[1])}
                = Range(target_columns.value) \ MissingFromTest

(* The width as an integer percentage *)
WidthPercent(w) ==
    LET k == int(FMul(w, 100)) IN IF Percent(k + 1) = w THEN k + 1 ELSE k

BlockOf(table, cat) == SelectSeq(table, LAMBDA row : row["Series"] = Some(cat))

(* C7: for a width of w percent the lower bound column of the merged table *)
(* of arima and prophet is labelled p{(100 - w) / 2} and the upper one     *)
(* p{100 - (100 - w) / 2} (the half taken with either rounding), with      *)
(* yhat_lower stored under the lower label and yhat_upper under the upper. *)
C7_BoundLabels ==
    (files # <<>> /\ adapter \in {"arima", "prophet"}) =>
        LET P == WidthPercent(confidence_interval_width[1])
        IN  \E h \in {(100 - P) \div 2, (100 - P + 1) \div 2} :
              LET lower == "p" \o ToString(h)
                  upper == "p" \o ToString(100 - h)
              IN  \A k \in 1..Len(categories) :
                    LET fc == Get(outputs, original_target_column \o "_" \o categories[k])
                        block == BlockOf(files[1], categories[k])
                    IN  /\ Len(block) = Len(fc)
                        /\ \A r \in 1..Len(fc) :
                              /\ {lower, upper} \subseteq DOMAIN block[r]
                              /\ block[r][lower] = fc[r].yhat_lower
                              /\ block[r][upper] = fc[r].yhat_upper

(* C8: for one width, arima and prophet compute the same pair of bound     *)
(* labels, and the merged table of every adapter, automlx included, names  *)
(* its bound columns with that pair.                                       *)
C8_SameLabelsEveryAdapter ==
    files # <<>> =>
        LET w == confidence_interval_width[1]
            a == arima_bound_names(arima_kwargs(model_kwargs, w))
            p == prophet_bound_names(prophet_kwargs(model_kwargs, w))
        IN  /\ a = p
            /\ \A r \in 1..Len(files[1]) :
                  {a.lower, a.upper} \subseteq DOMAIN files[1][r]

(* C9: every adapter hands its backend the width w as the mass inside the  *)
(* interval: arima and automlx fit or forecast with alpha = 1 - w, prophet *)
(* with interval_width = w.                                                *)
C9_SameCoverage ==
    \A k \in 1..Len(models) :
        IF adapter = "prophet"
        THEN models[k].interval_width = confidence_interval_width
        ELSE models[k].alpha = Some(FSub(FromInt(1), confidence_interval_width[1]))

SeriesKey(label) ==
    IF target_category_columns = None THEN target_column
    ELSE target_column \o "_" \o label
BlockStart(k) == Sum([j \in 1..(k - 1) |-> Len(outputs[j].forecast)])

(* C10: the written table is the row-wise concatenation of one block per   *)
(* series; a block has as many rows as the series' forecast frame, all     *)
(* carrying the series' label, and the labels of the table are exactly the *)
(* series produced by partitioning.                                        *)
C10_OneBlockPerSeries ==
    files # <<>> =>
        LET table == files[1]
        IN  /\ Len(table) = BlockStart(Len(outputs) + 1)
            /\ \A k \in 1..Len(outputs) :
                  \A r \in 1..Len(outputs[k].forecast) :
                      SeriesKey(table[BlockStart(k) + r]["Series"][1]) = outputs[k].key
            /\ {SeriesKey(table[r]["Series"][1]) : r \in 1..Len(table)}
                  = {full_data_dict[k].key : k \in 1..Len(full_data_dict)}

(* The first raw row of a series, and the position of a key among the     *)
(* partition's frames                                                      *)
FirstRow(key) ==
    CHOOSE r \in 1..Len(data) :
        /\ SeriesOf(data[r]) = key
        /\ \A q \in 1..(r - 1) : SeriesOf(data[q]) # key
KeyIndex(key) ==
    CHOOSE k \in 1..Len(full_data_dict) : full_data_dict[k].key = key

(* C11: the series keys of the partition are in order of first appearance  *)
(* in the input table, the fit loop visits the series in that order, and   *)
(* the blocks of the merged table appear in that order.                    *)
C11_OrderOfAppearance ==
    pc \notin {"load", "raised"} =>
        /\ \A a, b \in 1..Len(full_data_dict) :
              a < b => FirstRow(full_data_dict[a].key) < FirstRow(full_data_dict[b].key)
        /\ \A k \in 1..Len(outputs) :
              /\ outputs[k].key = full_data_dict[k].key
              /\ models[k].target = full_data_dict[k].key
        /\ files # <<>> =>
              \A r1, r2 \in 1..Len(files[1]) :
                  r1 < r2 =>
                      KeyIndex(SeriesKey(files[1][r1]["Series"][1]))
                         <= KeyIndex(SeriesKey(files[1][r2]["Series"][1]))

(* Two series, the later-sorting label first in the input, both written *)
C11_Witness ==
    /\ files # <<>>
    /\ Len(full_data_dict) = 2
    /\ full_data_dict[1].key = "y_a__a"
    /\ full_data_dict[2].key = "y_a"
    /\ {files[1][r]["Series"][1] : r \in 1..Len(files[1])} = {"a", "a__a"}

(* C12: with category columns and no additional data every input row is   *)
(* placed in exactly one series frame: the frames' row counts sum to the   *)
(* number of input rows and each frame holds exactly the rows of its       *)
(* series, a row with a missing category value included.                   *)
C12_EveryRowInOneFrame ==
    (pc # "load" /\ target_category_columns # None /\ additional_data = None) =>
        /\ Sum([k \in 1..Len(full_data_dict) |-> Len(full_data_dict[k].df)])
              = Len(data)
        /\ \A r \in 1..Len(data) :
              Cardinality({k \in 1..Len(full_data_dict) :
                             full_data_dict[k].key = SeriesOf(data[r])}) = 1
        /\ \A k \in 1..Len(full_data_dict) :
              Dates(full_data_dict[k].df)
                 = Dates(SelectSeq(data, LAMBDA row :
                                     SeriesOf(row) = full_data_dict[k].key))

(* A partitioned table with a row whose category value is missing *)
C12_Witness ==
    /\ pc # "load"
    /\ target_category_columns # None
    /\ additional_data = None
    /\ Len(data) = 2
    /\ \E r \in 1..Len(data) : data[r]["c1"] = NaN
    /\ \E k \in 1..Len(full_data_dict) : full_data_dict[k].key = "y_nan"

(* C13: when the fit or predict of a series fails inside operate, the     *)
(* error that reaches the caller is a ModelFitError (wrapping the cause    *)
(* and naming the series).                                                 *)
C13_FailureIsModelFitError ==
    (pc = "raised" /\ full_data_dict # <<>> /\ i <= Len(full_data_dict)) =>
        error = Some("ModelFitError")

RawSeries(table, key) == SelectSeq(table, LAMBDA row : SeriesOf(row) = key)
NoFutureRegressors(key) ==
    /\ additional_data # None
    /\ \A r \in 1..Len(RawSeries(additional_data[1], key)) :
          RawSeries(additional_data[1], key)[r][ds_column][1]
             <= MaxDate(RawSeries(data, key))

(* C14: a series with exogenous regressors but no regressor rows beyond    *)
(* its historical data never gets a forecast: the adapter fails before it  *)
(* produces one.                                                           *)
C14_NoForecastWithoutFutureRegressors ==
    \A k \in 1..Len(outputs) : ~NoFutureRegressors(outputs[k].key)

(* C15: whenever tuning ran for a series with at least one trial, the     *)
(* first trial of the study is the backend's default configuration and the *)
(* value of the selected configuration is not worse (not greater) than the *)
(* value of the default configuration.                                     *)
C15_DefaultIsFirstTrial ==
    \A k \in 1..Len(Fitted) :
        Fitted[k].study # <<>> =>
            /\ Fitted[k].study[1].params = ProphetDefaults
            /\ \E t \in 1..Len(Fitted[k].study) :
                  /\ Fitted[k].study[t].params = Fitted[k].params[1]
                  /\ Fitted[k].study[t].value <= Fitted[k].study[1].value
                  /\ \A j \in 1..Len(Fitted[k].study) :
                        Fitted[k].study[t].value <= Fitted[k].study[j].value

(* A study of two trials whose second trial beat the default one *)
C15_Witness ==
    \E k \in 1..Len(models) :
        /\ Len(models[k].study) = 2
        /\ models[k].study[2].value < models[k].study[1].value
        /\ models[k].params = Some(models[k].study[2].params)
        /\ models[k].params # Some(ProphetDefaults)

EvaluatedColumns == IF total_metrics = None THEN <<>> ELSE total_metrics[1]

(* C16: smape is never undefined for finite inputs: a point where actual   *)
(* and predicted are both 0 contributes 0 to the mean.                     *)
C16_SmapeDefined ==
    \A k \in 1..Len(EvaluatedColumns) : EvaluatedColumns[k].metrics.sMAPE # NaN

(* C17: for finite actual and predicted sequences of equal non-zero        *)
(* length, smape lies in the closed range 0..100.                          *)
C17_SmapeRange ==
    \A k \in 1..Len(EvaluatedColumns) :
        LET v == EvaluatedColumns[k].metrics.sMAPE
        IN  Len(EvaluatedColumns[k].y_true) > 0 =>
              /\ v # NaN
              /\ RLeq(Rat(0, 1), v[1])
              /\ RLeq(v[1], Rat(100, 1))

Scaled(x, k) == [q |-> RMul(x.q, Rat(k, 1)), over_eps |-> RMul(x.over_eps, Rat(k, 1))]

(* C18: for fixed y_true and y_pred, WMAPE times weights_denominator is    *)
(* the same for every non-zero weights_denominator, namely MAPE times      *)
(* sum(y_true), and the other metrics do not depend on the denominator.    *)
C18_WmapeScalesInversely ==
    \A k \in 1..Len(EvaluatedColumns) :
        LET c == EvaluatedColumns[k]
            product == Scaled(c.metrics.MAPE, Sum(c.y_true))
        IN  /\ c.weights_denominator # 0 =>
                  /\ c.metrics.WMAPE # NaN
                  /\ Scaled(c.metrics.WMAPE[1], c.weights_denominator) = product
            /\ \A d \in 1..MaxDenominator :
                  LET m == _build_metrics_df(c.y_true, c.y_pred, c.column_name, d)
                  IN  /\ m.WMAPE # NaN
                      /\ Scaled(m.WMAPE[1], d) = product
                      /\ m.sMAPE = c.metrics.sMAPE
                      /\ m.MAPE = c.metrics.MAPE
                      /\ m.RMSE = c.metrics.RMSE
                      /\ m.r2 = c.metrics.r2
                      /\ m["Explained Variance"] = c.metrics["Explained Variance"]

(* A column with a non-zero MAPE, a non-zero sum of actuals and a          *)
(* denominator above that sum                                              *)
C18_Witness ==
    \E k \in 1..Len(EvaluatedColumns) :
        /\ EvaluatedColumns[k].metrics.MAPE.q.n # 0
        /\ Sum(EvaluatedColumns[k].y_true) # 0
        /\ EvaluatedColumns[k].weights_denominator > Sum(EvaluatedColumns[k].y_true)

(* C19: when no forecast series appears in the test data,                 *)
(* test_evaluate_metrics does not raise: it warns and returns an empty     *)
(* metrics table.                                                          *)
C19_EmptyIntersectionIsEmptyTable ==
    (MissingFromTest # {} /\ MissingFromTest = Range(target_columns.value)) =>
        /\ error = None
        /\ total_metrics = Some(<<>>)

MeanAndMedian ==
    {"Mean " \o MetricNames[k] : k \in 1..Len(MetricNames)}
       \cup {"Median " \o MetricNames[k] : k \in 1..Len(MetricNames)}

(* C20: the summary returned by test_evaluate_metrics holds, for every     *)
(* per-series metric, both its mean and its median across the series, and  *)
(* the run's elapsed time.                                                 *)
C20_SummaryMeanAndMedian ==
    summary_metrics # None =>
        /\ MeanAndMedian \subseteq summary_metrics[1].columns
        /\ "Elapsed Time" \in summary_metrics[1].columns

----------------------------------------------------------------------------
(* C21: _load_data and _write_data accept exactly the formats json,        *)
(* clipboard, excel, csv, feather and hdf, taken from the format argument  *)
(* or, when that is empty, from the file extension; any other format       *)
(* raises before a read or a write is attempted.                           *)
SixFormats == {"json", "clipboard", "excel", "csv", "feather", "hdf"}
HistoricalFormat == format_of(env.input_filename, env.historical_format)
AdditionalFormat == format_of(env.additional_filename, env.additional_format)
OutputFormat == format_of(env.output_filename, env.output_format)
TestFormat == format_of(env.test_filename, env.test_format)
Writes == {k \in 1..Len(calls) : \E f \in SixFormats : calls[k].fn = "to_" \o f}
Reads == {k \in 1..Len(calls) : \E f \in SixFormats : calls[k].fn = "read_" \o f}

----------------------------------------------------------------------------
(* C22: in every per-series forecast frame that enters the merged output,  *)
(* lower bound <= forecast value <= upper bound at every timestamp, for    *)
(* every adapter, the automlx path without a confidence interval included. *)
Ordered(row) ==
    /\ notna(row.yhat_lower)
    /\ notna(row.yhat_upper)
    /\ row.yhat_lower[1] <= row.yhat[1]
    /\ row.yhat[1] <= row.yhat_upper[1]

C22_BoundsOrdered ==
    files # <<>> =>
      \A k \in 1..Len(outputs) :
        \A r \in 1..Len(outputs[k].forecast) : Ordered(outputs[k].forecast[r])

----------------------------------------------------------------------------
(* C23: during tuning the objective returns the mean of the configured     *)
(* metric when that metric is a column of the cross-validation performance *)
(* table; when it is absent the objective does not raise and returns the   *)
(* mean of rmse.                                                           *)
MeanOf(col) == CHOOSE m \in 0..10 : m * Len(col) = Sum(col)

C23_ObjectiveFallsBackToRmse ==
    \A k \in 1..Len(Fitted) :
      \A t \in 1..Len(Fitted[k].study) :
        LET trial == Fitted[k].study[t]
        IN  trial.value =
              IF selected_metric \in DOMAIN trial.df_p
              THEN MeanOf(trial.df_p[selected_metric])
              ELSE MeanOf(trial.df_p["rmse"])

(* A tuned fit for the metric MAPE, which no performance table holds, with *)
(* a trial whose rmse and smape means differ                               *)
C23_Witness ==
    /\ selected_metric = "MAPE"
    /\ error = None
    /\ \E k \in 1..Len(models) :
         \E t \in 1..Len(models[k].study) :
           /\ models[k].study[t].value = 2
           /\ models[k].study[t].df_p["smape"] = <<1, 1>>

----------------------------------------------------------------------------
(* C24: series are processed one at a time in partition order: at every    *)
(* point of the per-series loop models and outputs hold exactly one entry  *)
(* for each completed series and none for a later one, and after the loop  *)
(* the i-th model and the i-th output belong to the i-th series key.       *)
Completed == i - 1

C24_OneSeriesAtATime ==
    /\ Len(models) = Completed
    /\ Len(outputs) = Completed
    /\ Completed <= Len(full_data_dict)
    /\ \A k \in 1..Completed :
         /\ models[k].target = full_data_dict[k].key
         /\ outputs[k].key = full_data_dict[k].key
    /\ model # None => model[1].target = full_data_dict[i].key
    /\ pc \in {"written", "done", "evaluated"} =>
         Completed = Len(full_data_dict)

(* The second of two series is being forecast, the first one is collected *)
C24_Witness ==
    /\ pc = "predict"
    /\ i = 2
    /\ Len(full_data_dict) = 2
    /\ Len(models) = 1
    /\ models[1].target # model[1].target

----------------------------------------------------------------------------
(* C25: within one call of test_evaluate_metrics the weights denominator   *)
(* is computed once, equals the sum of the absolute actual values over all *)
(* series evaluated in the run, and the same value is passed to every      *)
(* _build_metrics_df call.                                                 *)
SumAbs(s) == Sum([r \in 1..Len(s) |-> Abs(s[r])])

C25_DenominatorOverEvaluatedSeries ==
    \A k \in 1..Len(EvaluatedColumns) :
      /\ EvaluatedColumns[k].weights_denominator =
           EvaluatedColumns[1].weights_denominator
      /\ EvaluatedColumns[k].weights_denominator =
           Sum([j \in 1..Len(EvaluatedColumns) |->
                  SumAbs(EvaluatedColumns[j].y_true)])

----------------------------------------------------------------------------
(* C26: partitioning does not modify the raw input tables: after           *)
(* load_data_dict has returned, the historical and the additional table    *)
(* have the columns and values they were loaded with, and                  *)
(* operator.original_total_data equals the data as loaded.                 *)
C26_InputsUntouched ==
    pc \notin {"load", "raised"} =>
      /\ data = original_user_data[1]
      /\ additional_data # None =>
           "__Series__" \notin Columns(additional_data[1])
      /\ additional_data = None => original_total_data = original_user_data

----------------------------------------------------------------------------
(* C27: with or without category columns the second result of              *)
(* _build_indexed_datasets is a list of target-column names whose i-th     *)
(* element is the key of the i-th frame.                                   *)
C27_TargetColumnsListKeys ==
    pc \notin {"load", "raised"} =>
      /\ target_columns.type = "list"
      /\ Len(target_columns.value) = Len(full_data_dict)
      /\ \A k \in 1..Len(full_data_dict) :
           target_columns.value[k] = full_data_dict[k].key

----------------------------------------------------------------------------
(* C30 as stated: after any sequence of SparkSessionSingleton(...) calls   *)
(* every call has returned the same instance, the one built by the first   *)
(* call; __init__ runs at most once and the metastore_id of a later call   *)
(* is ignored.                                                             *)
InitRuns == Cardinality({k \in 1..Len(returned) : returned[k].init})

C30_OneInstanceOneInit ==
    returned # <<>> =>
      /\ InitRuns <= 1
      /\ \A k \in 1..Len(returned) :
           /\ returned[k].result # None
           /\ returned[k].result = returned[1].result
      /\ Len(heap) = 1
      /\ heap[1] = SparkSessionSingleton(returned[1].metastore_id)

(* C30, amended: once a call has returned, every later call returns that   *)
(* same instance without running __init__ and its metastore_id is ignored; *)
(* every call before it ran __init__, which raised and stored nothing.     *)
Completed_calls == {k \in 1..Len(returned) : returned[k].result # None}

C30_SameInstanceOnceBuilt ==
    /\ Len(heap) <= 1
    /\ (Completed_calls = {}) = (heap = <<>>)
    /\ \A k \in 1..Len(returned) :
         IF \E j \in Completed_calls : j < k
         THEN /\ ~returned[k].init
              /\ returned[k].result = Some(1)
         ELSE /\ returned[k].init
              /\ k \in Completed_calls =>
                   /\ returned[k].result = Some(1)
                   /\ heap[1] = SparkSessionSingleton(returned[k].metastore_id)

(* The first call raised, the second built the instance for ocid1, the     *)
(* third asked for ocid2 and was handed the same instance                  *)
C30_Witness ==
    /\ Len(returned) = 3
    /\ returned[1].result = None
    /\ returned[2] = [metastore_id |-> Some("ocid1"), init |-> TRUE,
                      result |-> Some(1)]
    /\ returned[3] = [metastore_id |-> Some("ocid2"), init |-> FALSE,
                      result |-> Some(1)]
    /\ DEVELOPER_MODE = None
    /\ heap[1].metastore = Some("ocid1")

----------------------------------------------------------------------------
(* C29 as stated: run invokes the steps in sequence order, each step       *)
(* receiving the previous step's output; at the first step whose output    *)
(* is empty the run stops, no later step is invoked and the returned data  *)
(* is a single message (the step's custom_msg, or 'Blocked by <class       *)
(* name>' when it has none); if no step yields empty data, every step is   *)
(* invoked exactly once.                                                   *)
Invocations(k) == {c \in 1..Len(invoked) : invoked[c].step = k}
Received(k) == IF k = 1 THEN <<input>> ELSE obj.info[k - 1].output
Blocking == {k \in 1..Len(obj.info) : obj.info[k].output = <<>>}
Finished == run_pc \in {"returned", "raised"}
MessageOf(step) ==
    IF step.custom_msg \in {<<>>, <<None>>}
    THEN "Blocked by " \o step.class
    ELSE step.custom_msg[1][1]

InOrder ==
    /\ \A c, d \in 1..Len(invoked) : c <= d => invoked[c].step <= invoked[d].step
    /\ \A k \in 1..Len(steps(sequence)) :
         Invocations(k) # {} => \A j \in 1..k : Invocations(j) # {}

StopsAtFirstEmpty ==
    \A k \in Blocking :
      /\ run_pc = "returned"
      /\ Blocking = {k}
      /\ \A j \in (k + 1)..Len(steps(sequence)) : Invocations(j) = {}
      /\ obj.data = <<MessageOf(steps(sequence)[k])>>

C29_EveryStepOnceInOrder ==
    /\ InOrder
    /\ StopsAtFirstEmpty
    /\ \A k \in 1..Len(steps(sequence)) :
         /\ Cardinality(Invocations(k)) <= 1
         /\ \A c \in Invocations(k) : invoked[c].input = Received(k)
    /\ (Finished /\ Blocking = {}) =>
         \A k \in 1..Len(steps(sequence)) : Cardinality(Invocations(k)) = 1

(* C29, amended: as stated when num_generations is 1.  With more           *)
(* generations an LLM step that receives one text is invoked               *)
(* num_generations times with that text; one that receives several texts   *)
(* raises NotImplementedError, which ends the run before that step and     *)
(* every later one is invoked.                                             *)
Times(k) ==
    IF steps(sequence)[k].kind = "LLM" /\ num_generations > 1
    THEN num_generations ELSE 1

C29_EveryStepInOrder ==
    /\ InOrder
    /\ StopsAtFirstEmpty
    /\ \A k \in 1..Len(steps(sequence)) :
         /\ Cardinality(Invocations(k)) \in {0, Times(k)}
         /\ \A c \in Invocations(k) :
              IF Times(k) > 1
              THEN Received(k) = <<invoked[c].input>>
              ELSE invoked[c].input = Received(k)
    /\ (run_pc = "returned" /\ Blocking = {}) =>
         /\ \A k \in 1..Len(steps(sequence)) :
              Cardinality(Invocations(k)) = Times(k)
         /\ obj.data = Received(Len(steps(sequence)) + 1)
    /\ run_pc = "raised" =>
         /\ run_error = Some("NotImplementedError")
         /\ Times(step_index) > 1
         /\ Len(Received(step_index)) > 1
         /\ \A k \in step_index..Len(steps(sequence)) : Invocations(k) = {}

(* A run of three steps blocked by the second one, a guardrail with its    *)
(* own message, after an LLM was asked for two generations                 *)
C29_Witness ==
    /\ run_pc = "returned"
    /\ Len(steps(sequence)) = 3
    /\ num_generations = 2
    /\ steps(sequence)[1].kind = "LLM"
    /\ Cardinality(Invocations(1)) = 2
    /\ Blocking = {2}
    /\ obj.data = <<"Sorry">>
    /\ Invocations(3) = {}

----------------------------------------------------------------------------
(* C28 as stated: any exception raised by _build_model is caught and never *)
(* propagates: the fallback model is then built exactly once, it produces  *)
(* one anomaly output per series of full_data_dict (labels 1 = outlier,    *)
(* 0 = inlier) and report generation continues with that output; the       *)
(* fallback is not built when _build_model succeeds.                       *)
BuildOutcome == IF built = <<>> THEN "none" ELSE built[1].outcome
FallbackCalls ==
    {k \in 1..Len(built) : built[k].method = "_fallback_build_model"}
HandlerDone == report_pc \notin {"try", "except"}
OneOutputPerSeries ==
    /\ anomaly_output # None
    /\ Len(anomaly_output[1]) = Len(datasets.full_data_dict)
    /\ \A k \in 1..Len(datasets.full_data_dict) :
         LET o == anomaly_output[1][k]
             df == datasets.full_data_dict[k].df
         IN  /\ o.category = datasets.full_data_dict[k].key
             /\ Len(o.anomalies) = Len(df)
             /\ \A r \in 1..Len(df) :
                  /\ o.anomalies[r][date_column] = df[r][date_column]
                  /\ o.anomalies[r][ANOMALY_COL] =
                       (IF predictions[k][r] = -1 THEN 1 ELSE 0)
ReportContinued ==
    \/ report_pc = "report"
    \/ report_pc = "saved" /\
         \A k \in 1..Len(datasets.full_data_dict) :
           report[1].plots[k].anomaly_col =
             [r \in 1..Len(anomaly_output[1][k].anomalies) |->
                anomaly_output[1][k].anomalies[r][ANOMALY_COL]]
    \/ report_pc = "raised" /\ report_error = Some("NameError")

C28_FallbackAlwaysCompletes ==
    /\ Cardinality(FallbackCalls) <= 1
    /\ BuildOutcome = "returned" => FallbackCalls = {}
    /\ (BuildOutcome \in Raised /\ HandlerDone) =>
         /\ Cardinality(FallbackCalls) = 1
         /\ OneOutputPerSeries
         /\ ReportContinued

(* C28, amended: an Exception raised by _build_model is caught and the     *)
(* fallback is built exactly once; when the fallback returns it has one    *)
(* anomaly output per series (1 = outlier, 0 = inlier) and report          *)
(* generation continues with it; an exception of the fallback, or one of   *)
(* _build_model that is no Exception, leaves generate_report.  The         *)
(* fallback is not built when _build_model succeeds.                       *)
C28_FallbackOnException ==
    /\ Cardinality(FallbackCalls) <= 1
    /\ BuildOutcome = "returned" => FallbackCalls = {}
    /\ (BuildOutcome \in Exceptions /\ HandlerDone) =>
         /\ Cardinality(FallbackCalls) = 1
         /\ IF built[2].outcome = "returned"
            THEN OneOutputPerSeries /\ ReportContinued
            ELSE /\ report_pc = "raised"
                 /\ report_error = Some(built[2].outcome)
                 /\ anomaly_output = None
                 /\ report = None
    /\ BuildOutcome \in Raised \ Exceptions =>
         /\ FallbackCalls = {}
         /\ report_pc = "raised"
         /\ report_error = Some(BuildOutcome)
         /\ report = None

(* _build_model raised, the fallback labelled two series, one row as an    *)
(* outlier and one as an inlier, and the report was saved with them        *)
C28_Witness ==
    /\ BuildOutcome = "ValueError"
    /\ report_pc = "saved"
    /\ Len(datasets.full_data_dict) = 2
    /\ Len(anomaly_output[1]) = 2
    /\ predictions[1][1] = -1
    /\ anomaly_output[1][1].anomalies[1][ANOMALY_COL] = 1
    /\ predictions[2][1] = 1
    /\ report[1].plots[2].anomaly_col[1] = 0

====
